---------------------------- MODULE Spec2Model ----------------------------
(***************************************************************************)
(* color-run: the palette -> colour queue -> frame queue -> byte stream    *)
(* pipeline (cmd/main.go, internal/frame, internal/image,                  *)
(* internal/colormind).                                                    *)
(*                                                                         *)
(* Go pointers and slices that may be nil are modelled as sequences of     *)
(* length 0 (nil) or 1 (a value): Nil, Ptr(v), Deref(p).                   *)
(***************************************************************************)
EXTENDS Integers, Sequences, FiniteSets, TLC

VARIABLES
    imageChannel,   \* buffer of the frame channel read by Read
    imageClosed,    \* close(imageChannel) has been called
    fi,             \* the reader object: [image, idx]
    rd,             \* the Read call in progress: [pc, l, cnt, end, p, n, err]
    got,            \* bytes returned by all Read calls so far, in order
    enq,            \* frames sent on imageChannel so far, in order
    colErrChan,     \* buffer of the palette queue's error channel
    conf,           \* the flags: [version, width, height, transitionFrames]
    colorChannel,   \* buffer of the colour channel
    colorClosed,    \* close(colorChannel) has been called
    errorChannel,   \* buffer of the error channel
    ctxDone,        \* the shared context is cancelled
    fetch,          \* the palette goroutine: [pc, start, slowCount, previous, stop, pal, i, err]
    synth,          \* the frame goroutine: [pc, left, right, done, frame]
    coord,          \* the loop at the end of main: [pc]
    crashed,        \* the run-time panic that ended the process, or "none"
    producer,       \* the fields of image.Producer shared with Stop: [stopping]
    ffmpeg,         \* the goroutine waiting for the ffmpeg process: [pc, err]
    hist            \* what happened so far: [fetched, sent, recvd, closeLog, nFetch, nErr, pairs]

readerVars == <<imageChannel, imageClosed, fi, rd, got, enq>>
pipeVars == <<producer, ffmpeg, colErrChan, conf, colorChannel, colorClosed, errorChannel, ctxDone,
              fetch, synth, coord, crashed, hist>>
vars == <<readerVars, pipeVars>>

----------------------------------------------------------------------------
(* Helpers *)

Nil == <<>>
Ptr(v) == <<v>>
Deref(p) == p[1]

Min(a, b) == IF a < b THEN a ELSE b

RECURSIVE Flatten(_)
Flatten(ss) == IF ss = <<>> THEN <<>> ELSE Head(ss) \o Flatten(Tail(ss))

IsPrefix(s, t) == Len(s) <= Len(t) /\ SubSeq(t, 1, Len(s)) = s

\* s[from:] of Go, from counted from 0
SliceFrom(s, from) == SubSeq(s, from + 1, Len(s))

----------------------------------------------------------------------------
(* Single-precision arithmetic of lerp / mix.                              *)
(* A float32 v >= 0 is <<m, e>> with v = m * 2^(-e), m = 0 or              *)
(* 2^23 <= m < 2^24; every operation rounds to nearest, ties to even.      *)

\* the values a float32 takes here
F32 == Nat \X Int

\* number of bits of n, 0 <= n < 2^31
BitLen[n \in Nat] ==
    IF n >= 2^30 THEN 31
    ELSE CHOOSE b \in 0..30 : n < 2^b /\ (b = 0 \/ 2^(b - 1) <= n)

\* the float32 nearest to N * 2^(-e), for 0 <= N < 2^31
Fl[N \in Nat, e \in Int] ==
    IF N = 0 THEN <<0, 0>>
    ELSE LET b == BitLen[N] IN
         IF b <= 24 THEN <<N * 2^(24 - b), e + (24 - b)>>
         ELSE LET s    == b - 24
                  q    == N \div 2^s
                  r    == N % 2^s
                  half == 2^(s - 1)
                  q1   == IF r > half \/ (r = half /\ q % 2 = 1) THEN q + 1 ELSE q
              IN  IF q1 = 2^24 THEN <<2^23, e - s - 1>> ELSE <<q1, e - s>>

\* a / b for two float32 that hold the integers k and t: k = t, or t a power
\* of two, or 0 <= k and 0 < t < 64
FDiv[k \in Nat, t \in Nat] ==
    IF k = 0 THEN <<0, 0>>
    ELSE IF k = t THEN <<2^23, 23>>
    ELSE IF t = 2^(BitLen[t] - 1) THEN Fl[k, BitLen[t] - 1]
    ELSE LET E  == 25 + BitLen[t] - BitLen[k]
             q  == (k * 2^E) \div t
             st == IF (k * 2^E) % t # 0 THEN 1 ELSE 0
         IN  Fl[2 * q + st, E + 1]

\* 1.0 - ratio, 0 <= ratio <= 1
FSubFromOne[f \in F32] ==
    IF f[1] = 0 \/ f[2] > 54 THEN <<2^23, 23>>
    ELSE IF f[2] <= 30 THEN Fl[2^(f[2]) - f[1], f[2]]
    ELSE LET s  == f[2] - 30
             c  == (f[1] + 2^s - 1) \div 2^s
             st == IF f[1] % 2^s # 0 THEN 1 ELSE 0
         IN  Fl[2 * (2^30 - c) + st, 31]

\* float32(c) * f for an 8-bit c
FMulByte[c \in Nat, f \in F32] ==
    LET mh  == f[1] \div 256
        ml  == f[1] % 256
        X   == c * mh + ((c * ml) \div 256)
        rem == (c * ml) % 256
    IN  IF X < 2^22 THEN Fl[X * 256 + rem, f[2]]
        ELSE Fl[(X * 32 + (rem \div 8)) * 2 + (IF rem % 8 # 0 THEN 1 ELSE 0), f[2] - 2]

\* a + b
FAdd[a \in F32, b \in F32] ==
    IF a[1] = 0 THEN b
    ELSE IF b[1] = 0 THEN a
    ELSE LET big   == IF a[2] <= b[2] THEN a ELSE b
             small == IF a[2] <= b[2] THEN b ELSE a
             d     == small[2] - big[2]
             sm8   == small[1] * 8
             sh    == IF d > 27 THEN 0 ELSE sm8 \div 2^d
             st    == IF d > 27 \/ sm8 % 2^d # 0 THEN 1 ELSE 0
         IN  Fl[(big[1] * 8 + sh) * 2 + st, big[2] + 4]

\* a < b
FLt(a, b) ==
    IF b[1] = 0 THEN FALSE
    ELSE IF a[1] = 0 THEN TRUE
    ELSE a[2] > b[2] \/ (a[2] = b[2] /\ a[1] < b[1])

\* the integer float32(n) holds, 0 <= n < 2^25: above 2^24 the nearest even
\* integer, a tie going to the one with the even mantissa
Float32OfInt(n) ==
    IF n <= 2^24 THEN n
    ELSE IF n % 2 = 0 THEN n
    ELSE IF ((n - 1) \div 2) % 2 = 0 THEN n - 1 ELSE n + 1

\* ratio := float32(frame) / float32(transitionFrames)
FrameRatio(frame, transition) == FDiv[Float32OfInt(frame), Float32OfInt(transition)]

\* uint8(f): truncation toward zero
FToByte[f \in F32] == IF f[2] > 30 THEN 0 ELSE (f[1] \div 2^(f[2])) % 256

\* uint8(float32(c1)*(1.0-ratio) + float32(c2)*ratio)
LerpChannel(c1, c2, ratio) ==
    FToByte[FAdd[FMulByte[c1, FSubFromOne[ratio]], FMulByte[c2, ratio]]]

----------------------------------------------------------------------------
(* Bounds and inputs of the model *)

\* frames the environment sends in the reader specifications
MaxFrames == 3

\* lengths of the buffers handed to the copy-based Read
BufLens == {0, 1, 3, 4, 5, 9}

\* lengths of the buffers handed to the pixel-wise Reads
PixelBufLens == {0, 3, 4, 5, 8, 16}

\* byte frames sent to the copy-based reader
ByteFrames == {<<1, 2, 3, 4>>, <<5, 6, 7, 8>>, <<9, 10>>}

\* colours, color.RGBA
RGBA(r, g, b, a) == [R |-> r, G |-> g, B |-> b, A |-> a]
TestColors == {RGBA(1, 2, 3, 4), RGBA(5, 6, 7, 8)}

\* image sizes (width, height) of the reader specifications
TestRects == {<<1, 1>>, <<2, 1>>}

\* calls of GetPaletteWithContext before cancellation
MaxFetch == 2

\* colours the environment sends in the frame specification
MaxColors == 3

\* capacities of colorChannel and errorChannel
colorChanSize == 15
errorChanSize == 5

----------------------------------------------------------------------------
(* image.RGBA *)

\* the four bytes of one pixel
PixelBytes(c) == <<c.R, c.G, c.B, c.A>>

RECURSIVE Repeat(_, _)
Repeat(s, k) == IF k <= 0 THEN <<>> ELSE s \o Repeat(s, k - 1)

\* color.RGBAModel.Convert of a colour given through the Color interface:
\* the 16-bit value c | c<<8 shifted back to 8 bits
Conv8(c) == ((c * 257) \div 256) % 256
ConvertRGBA(c) == RGBA(Conv8(c.R), Conv8(c.G), Conv8(c.B), Conv8(c.A))

\* image.NewRGBA(image.Rect(0, 0, w, h)) with img.Set(x, y, c) on every pixel
UniformImage(w, h, c) ==
    [Dx |-> w, Dy |-> h, Stride |-> 4 * w,
     Pix |-> Repeat(PixelBytes(ConvertRGBA(c)), w * h)]

TestImages == {UniformImage(r[1], r[2], c) : r \in TestRects, c \in TestColors}

----------------------------------------------------------------------------
(* ffmpegInput.Read: the three versions of cmd/main.go.                    *)
(* fi.image is the frame being copied (fi.image, fi.img, fi.col).          *)
(* One step is one iteration of the outer for loop, which may block on the *)
(* frame channel; the iteration that ends the loop returns.                *)

RdIdle == [pc |-> "idle", l |-> 0, cnt |-> 0, end |-> FALSE, p |-> <<>>,
           n |-> 0, err |-> "none", fail |-> "none"]

\* frame, ok := <-ch on a channel that is not blocking
RecvFrame(ch) == IF ch # <<>> THEN Ptr(Head(ch)) ELSE Nil
RecvRest(ch) == IF ch # <<>> THEN Tail(ch) ELSE ch

\* fi.image[fi.idx:]; the nil slice has no elements
RestWhole(image, idx) == IF image = Nil THEN <<>> ELSE Deref(image)
Rest(image, idx) == IF image = Nil THEN <<>> ELSE SliceFrom(Deref(image), idx)

\* copy(p[cnt:], src): p with the bytes copied in
CopyInto(p, cnt, src) ==
    LET n == Min(Len(p) - cnt, Len(src))
    IN  [j \in 1..Len(p) |-> IF j > cnt /\ j <= cnt + n THEN src[j - cnt] ELSE p[j]]

\* the end of an iteration: the frame is dropped when used up, the call
\* returns when the buffer is full
EndIter(f, r, image1, size, n, p1, end1, fail) ==
    LET idx1 == f.idx + n
        cnt1 == r.cnt + n
    IN  IF fail # "none"
        THEN [fi |-> [f EXCEPT !.image = image1],
              rd |-> [r EXCEPT !.pc = "panic", !.p = p1, !.end = end1, !.fail = fail]]
        ELSE [fi |-> IF idx1 >= size THEN [f EXCEPT !.image = Nil, !.idx = 0]
                     ELSE [f EXCEPT !.image = image1, !.idx = idx1],
              rd |-> IF cnt1 >= r.l
                     THEN [RdIdle EXCEPT !.l = r.l, !.n = cnt1, !.p = p1,
                                         !.err = IF end1 THEN "EOF" ELSE "none"]
                     ELSE [r EXCEPT !.cnt = cnt1, !.end = end1, !.p = p1]]

\* cmd/main.go 45-73: frames are []byte
StepCopy(f, r, ch) ==
    LET recv   == f.image = Nil
        image1 == IF recv THEN RecvFrame(ch) ELSE f.image
        end1   == r.end \/ (recv /\ ch = <<>>)
        src    == Rest(image1, f.idx)
        n      == Min(r.l - r.cnt, Len(src))
        size   == IF image1 = Nil THEN 0 ELSE Len(Deref(image1))
    IN  EndIter(f, r, image1, size, n, CopyInto(r.p, r.cnt, src), end1, "none")

\* p[j], p[j+1], p[j+2], p[j+3] = b[1..4] in this order, each store checked
\* against len(p); k is the number of stores already done
RECURSIVE StorePixel(_, _, _, _)
StorePixel(p, j, b, k) ==
    IF k = 4 THEN [p |-> p, fail |-> "none"]
    ELSE IF j + k >= Len(p) THEN [p |-> p, fail |-> "index out of range"]
    ELSE StorePixel([p EXCEPT ![j + k + 1] = b[k + 1]], j, b, k + 1)

\* for i, j := idx, cnt; i < size && j < l; i, j = i+4, j+4 { p[j..j+3] = Pix[i..i+3]; n += 4 }
RECURSIVE PixLoop(_, _, _, _, _, _, _)
PixLoop(i, j, n, p, pix, size, l) ==
    IF ~(i < size /\ j < l) THEN [p |-> p, n |-> n, fail |-> "none"]
    ELSE IF i + 3 >= Len(pix) THEN [p |-> p, n |-> n, fail |-> "index out of range"]
    ELSE LET st == StorePixel(p, j, SubSeq(pix, i + 1, i + 4), 0)
         IN  IF st.fail # "none" THEN [p |-> st.p, n |-> n, fail |-> st.fail]
             ELSE PixLoop(i + 4, j + 4, n + 4, st.p, pix, size, l)

\* cmd/main.go 336-372: frames are *image.RGBA
StepImage(f, r, ch) ==
    LET recv   == f.image = Nil
        image1 == IF recv THEN RecvFrame(ch) ELSE f.image
        end1   == r.end \/ (recv /\ ch = <<>>)
    IN  IF image1 = Nil
        THEN \* fi.img.Rect of a nil *image.RGBA
             EndIter(f, r, image1, 0, 0, r.p, end1, "nil dereference")
        ELSE LET img  == Deref(image1)
                 size == img.Dx * img.Dy * 4
                 lp   == PixLoop(f.idx, r.cnt, 0, r.p, img.Pix, size, r.l)
             IN  EndIter(f, r, image1, size, lp.n, lp.p, end1, lp.fail)

\* for i, j := idx, cnt; i < size && j < l; i, j = i+1, j+4 { p[j..j+3] = col; n += 4 }
RECURSIVE ColLoop(_, _, _, _, _, _, _)
ColLoop(i, j, n, p, col, size, l) ==
    IF ~(i < size /\ j < l) THEN [p |-> p, n |-> n, fail |-> "none"]
    ELSE IF col = Nil THEN [p |-> p, n |-> n, fail |-> "nil dereference"]
    ELSE LET st == StorePixel(p, j, PixelBytes(Deref(col)), 0)
         IN  IF st.fail # "none" THEN [p |-> st.p, n |-> n, fail |-> st.fail]
             ELSE ColLoop(i + 1, j + 4, n + 4, st.p, col, size, l)

\* unnamed/part_000 88-123: frames are *color.RGBA, one per image
StepColor(f, r, ch) ==
    LET recv   == f.image = Nil
        image1 == IF recv THEN RecvFrame(ch) ELSE f.image
        end1   == r.end \/ (recv /\ ch = <<>>)
        size   == f.ImageSize * 4
        lp     == ColLoop(f.idx, r.cnt, 0, r.p, image1, size, r.l)
    IN  EndIter(f, r, image1, size, lp.n, lp.p, end1, lp.fail)

\* a receive on the frame channel can proceed
CanRecv == imageChannel # <<>> \/ imageClosed

\* Read(p) is called with a buffer of l bytes
ReadCallWith(lens) ==
    /\ crashed = "none"
    /\ rd.pc = "idle"
    /\ \E l \in lens :
         rd' = [RdIdle EXCEPT !.pc = "loop", !.l = l, !.p = [j \in 1..l |-> 0]]
    /\ UNCHANGED <<imageChannel, imageClosed, fi, got, enq>>
    /\ UNCHANGED pipeVars

\* one iteration, s being its outcome
ReadIterWith(s) ==
    /\ crashed = "none"
    /\ rd.pc = "loop"
    /\ fi.image = Nil => CanRecv
    /\ fi' = s.fi
    /\ rd' = s.rd
    /\ imageChannel' = IF fi.image = Nil THEN RecvRest(imageChannel) ELSE imageChannel
    /\ got' = IF s.rd.pc = "idle" THEN got \o SubSeq(s.rd.p, 1, s.rd.n) ELSE got
    /\ UNCHANGED <<imageClosed, enq>>
    /\ UNCHANGED pipeVars

ReadCall == ReadCallWith(BufLens)
ReadIterCopy == ReadIterWith(StepCopy(fi, rd, imageChannel))

ReadPixelCall == ReadCallWith(PixelBufLens)
ReadIterImage == ReadIterWith(StepImage(fi, rd, imageChannel))
ReadIterColor == ReadIterWith(StepColor(fi, rd, imageChannel))

\* the producer of the frame channel, as seen by a reader on its own
EnqueueFrom(frames) ==
    /\ ~imageClosed
    /\ Len(enq) < MaxFrames
    /\ \E f \in frames :
         /\ imageChannel' = Append(imageChannel, f)
         /\ enq' = Append(enq, f)
    /\ UNCHANGED <<imageClosed, fi, rd, got>>
    /\ UNCHANGED pipeVars

EnqueueBytes == EnqueueFrom(ByteFrames)
EnqueueImage == EnqueueFrom(TestImages)
EnqueueColor == EnqueueFrom(TestColors)

CloseFrames ==
    /\ ~imageClosed
    /\ imageClosed' = TRUE
    /\ UNCHANGED <<imageChannel, fi, rd, got, enq>>
    /\ UNCHANGED pipeVars

HistInit == [fetched |-> <<>>, sent |-> <<>>, recvd |-> <<>>, closeLog |-> <<>>,
             nFetch |-> 0, nErr |-> 0, pairs |-> 0]

FetchInit == [pc |-> "fetch", start |-> 0, slowCount |-> colorChanSize \div 3,
              previous |-> Nil, stop |-> FALSE, pal |-> Nil, i |-> 0, err |-> "none"]

SynthInit == [pc |-> "left", left |-> Nil, right |-> Nil, done |-> FALSE, frame |-> 0]

\* the state after construction, with all channels empty and open
InitPipe(c) ==
    /\ conf = c
    /\ producer = [stopping |-> FALSE]
    /\ ffmpeg = [pc |-> "run", err |-> "none"]
    /\ colErrChan = <<>>
    /\ colorChannel = <<>>
    /\ colorClosed = FALSE
    /\ errorChannel = <<>>
    /\ ctxDone = FALSE
    /\ fetch = FetchInit
    /\ synth = SynthInit
    /\ coord = [pc |-> "loop"]
    /\ crashed = "none"
    /\ hist = HistInit

InitReader ==
    /\ imageChannel = <<>>
    /\ imageClosed = FALSE
    /\ rd = RdIdle
    /\ got = <<>>
    /\ enq = <<>>
    /\ InitPipe([version |-> "reader", width |-> 0, height |-> 0, transitionFrames |-> 0])

InitReadCopy == InitReader /\ fi = [image |-> Nil, idx |-> 0, ImageSize |-> 0]
NextReadCopy == EnqueueBytes \/ CloseFrames \/ ReadCall \/ ReadIterCopy
SpecReadCopy == InitReadCopy /\ [][NextReadCopy]_vars

InitReadImage == InitReader /\ fi = [image |-> Nil, idx |-> 0, ImageSize |-> 0]
NextReadImage == EnqueueImage \/ CloseFrames \/ ReadPixelCall \/ ReadIterImage
SpecReadImage == InitReadImage /\ [][NextReadImage]_vars

InitReadColor ==
    /\ InitReader
    /\ \E r \in TestRects : fi = [image |-> Nil, idx |-> 0, ImageSize |-> r[1] * r[2]]
NextReadColor == EnqueueColor \/ CloseFrames \/ ReadPixelCall \/ ReadIterColor
SpecReadColor == InitReadColor /\ [][NextReadColor]_vars

----------------------------------------------------------------------------
(* The pipeline of main: palette goroutine -> colorChannel -> frame        *)
(* goroutine -> imageChannel -> Read, and the loop at the end of main.     *)
(* A run-time panic in any goroutine ends the process.                     *)

Crashed == crashed # "none" \/ rd.pc = "panic"

\* palettes the API answers with: five colours, alpha 255
ApiColor(v) == Ptr(RGBA(v, 255 - v, v \div 2, 255))
Palettes == {<<ApiColor(0), ApiColor(50), ApiColor(100), ApiColor(150), ApiColor(200)>>,
             <<ApiColor(255), ApiColor(205), ApiColor(155), ApiColor(105), ApiColor(55)>>}

\* errors of a request that was issued
FetchErrors == {"ErrPost"}

\* the palettes the API can answer a request seeded with p: any palette, among
\* them those that keep the colours of the seed in their positions
Answers(p) ==
    IF p = Nil THEN Palettes
    ELSE Palettes \cup {[k \in 1..5 |-> IF Deref(p)[k] # Nil THEN Deref(p)[k] ELSE q[k]] :
                            q \in Palettes}

SeedCountAll(p) == IF \A k \in 1..5 : Deref(p)[k] # Nil THEN 5 ELSE 0
\* cnt of colormind.go 110-115: the entries of the seed that hold a colour
SeedCount(p) == Cardinality({k \in 1..5 : Deref(p)[k] # Nil})

\* colormind.GetPaletteWithContext(ctx, model, p): the results it can return,
\* req telling whether c.Client.Do was called. A seed with no colour is
\* rejected; a request under a cancelled context fails.
GetPaletteWithContext(done, p) ==
    IF p # Nil /\ SeedCount(p) = 0
    THEN {[pal |-> Nil, err |-> "ErrEmptyPalette", req |-> FALSE]}
    ELSE IF done THEN {[pal |-> Nil, err |-> "ErrPost", req |-> TRUE]}
    ELSE {[pal |-> Nil, err |-> e, req |-> TRUE] : e \in FetchErrors}
         \cup {[pal |-> Ptr(q), err |-> "none", req |-> TRUE] : q \in Answers(p)}

\* pal, err := cm.GetPaletteWithContext(ctx, colorModel, previous)
FetchGet ==
    /\ ~Crashed
    /\ fetch.pc = "fetch"
    /\ ctxDone \/ hist.nFetch < MaxFetch
    /\ \E res \in GetPaletteWithContext(ctxDone, fetch.previous) :
         IF res.err # "none"
         THEN /\ fetch' = [fetch EXCEPT !.pc = "senderr", !.err = res.err]
              /\ hist' = [hist EXCEPT !.nFetch = IF ctxDone THEN @ ELSE @ + 1]
         ELSE /\ fetch' = [fetch EXCEPT !.pc = IF fetch.start < 5 THEN "enqueue" ELSE "pace",
                                        !.pal = res.pal, !.i = fetch.start]
              /\ hist' = [hist EXCEPT !.nFetch = @ + 1,
                                      !.fetched = Append(@, Deref(res.pal))]
    /\ UNCHANGED <<producer, ffmpeg, colErrChan, conf, colorChannel, colorClosed,
                   errorChannel, ctxDone, synth, coord, crashed>>
    /\ UNCHANGED readerVars

\* continue: the next iteration starts with start, slowCount, previous as
\* they were
AfterErrorPaced(f) ==
    [f EXCEPT !.pc = "fetch", !.err = "none", !.slowCount = IF @ > 0 THEN @ - 1 ELSE @]
AfterError(f) == [f EXCEPT !.pc = "fetch", !.err = "none"]

\* errorChannel <- fmt.Errorf("getting palette: %w", err); continue
FetchSendErr ==
    /\ ~Crashed
    /\ fetch.pc = "senderr"
    /\ Len(errorChannel) < errorChanSize
    /\ errorChannel' = Append(errorChannel, fetch.err)
    /\ fetch' = AfterError(fetch)
    /\ hist' = [hist EXCEPT !.nErr = IF ctxDone THEN @ ELSE @ + 1]
    /\ UNCHANGED <<producer, ffmpeg, colErrChan, conf, colorChannel, colorClosed, ctxDone,
                   synth, coord, crashed>>
    /\ UNCHANGED readerVars

\* the loop variable after one select
FetchNextI(f) == [f EXCEPT !.i = f.i + 1, !.pc = IF f.i + 1 < 5 THEN "enqueue" ELSE "pace"]

\* select { case colorChannel <- pal[i]: case <-ctx.Done(): stop = true }
FetchEnqueue ==
    /\ ~Crashed
    /\ fetch.pc = "enqueue"
    /\ \/ /\ Len(colorChannel) < colorChanSize \/ colorClosed
          /\ IF colorClosed
             THEN /\ crashed' = "send on closed channel"
                  /\ UNCHANGED <<colorChannel, fetch, hist>>
             ELSE /\ colorChannel' = Append(colorChannel, Deref(fetch.pal)[fetch.i + 1])
                  /\ hist' = [hist EXCEPT !.sent = Append(@, Deref(fetch.pal)[fetch.i + 1])]
                  /\ fetch' = FetchNextI(fetch)
                  /\ UNCHANGED crashed
       \/ /\ ctxDone
          /\ fetch' = FetchNextI([fetch EXCEPT !.stop = TRUE])
          /\ UNCHANGED <<colorChannel, hist, crashed>>
    /\ UNCHANGED <<producer, ffmpeg, colErrChan, conf, colorClosed, errorChannel, ctxDone,
                   synth, coord>>
    /\ UNCHANGED readerVars

\* previous[0], previous[1] = pal[3], pal[4] on the palette previous points to
NextPreviousShifted(previous, pal) ==
    LET base == IF previous = Nil THEN <<Nil, Nil, Nil, Nil, Nil>> ELSE Deref(previous)
    IN  Ptr([base EXCEPT ![1] = Deref(pal)[3], ![2] = Deref(pal)[4]])
NextPreviousUnset(previous, pal) ==
    IF previous = Nil THEN Ptr(<<Nil, Nil, Nil, Nil, Nil>>) ELSE previous
NextPrevious(previous, pal) ==
    LET base == IF previous = Nil THEN <<Nil, Nil, Nil, Nil, Nil>> ELSE Deref(previous)
    IN  Ptr([base EXCEPT ![1] = Deref(pal)[4], ![2] = Deref(pal)[5]])

\* close(ch) by who, recorded
CloseLog(log, ch, who) == Append(log, <<ch, who>>)

\* if previous == nil { previous = &colormind.Palette{}; start = 2 }
KeepStart(previous, start) == start
NextStart(previous, start) == IF previous = Nil THEN 2 ELSE start

\* the rest of the iteration: the seed, the pacing sleep, and on stop the
\* break and close(colorChannel)
FetchPace ==
    /\ ~Crashed
    /\ fetch.pc = "pace"
    /\ LET f1 == [fetch EXCEPT !.previous = NextPrevious(fetch.previous, fetch.pal),
                               !.start = NextStart(fetch.previous, fetch.start),
                               !.slowCount = IF @ > 0 THEN @ - 1 ELSE @,
                               !.pal = Nil, !.i = 0]
       IN  IF fetch.stop
           THEN /\ fetch' = [f1 EXCEPT !.pc = "done"]
                /\ IF colorClosed
                   THEN crashed' = "close of closed channel" /\ UNCHANGED colorClosed
                   ELSE colorClosed' = TRUE /\ UNCHANGED crashed
                /\ hist' = [hist EXCEPT !.closeLog = CloseLog(@, "colorChannel", "fetch")]
           ELSE /\ fetch' = [f1 EXCEPT !.pc = "fetch"]
                /\ UNCHANGED <<colorClosed, crashed, hist>>
    /\ UNCHANGED <<producer, ffmpeg, colErrChan, conf, colorChannel, errorChannel, ctxDone,
                   synth, coord>>
    /\ UNCHANGED readerVars

Fetch == FetchGet \/ FetchSendErr \/ FetchEnqueue \/ FetchPace

----------------------------------------------------------------------------
(* The frame goroutine: the closure of main and LinearGradientTransition.Run *)

lerp(c1, c2, ratio) ==
    RGBA(LerpChannel(c1.R, c2.R, ratio), LerpChannel(c1.G, c2.G, ratio),
         LerpChannel(c1.B, c2.B, ratio), LerpChannel(c1.A, c2.A, ratio))

\* the frame sent for an interpolated colour: the []byte of main.go 244-253,
\* the *image.RGBA of Run
PixelPosUnscaled(x, y, stride) == y * stride + x
\* pos := y*stride + x*4
PixelPos(x, y, stride) == y * stride + x * 4

\* for x := 0; x < *width; x++ { for y := 0; y < *height; y++ { pos := ...;
\* image[pos] = color.R; image[pos+1] = color.G; image[pos+2] = color.B;
\* image[pos+3] = color.A } }, from the iteration (x, y) on
RECURSIVE FillFrom(_, _, _, _, _, _)
FillFrom(image, x, y, w, h, c) ==
    IF x >= w THEN image
    ELSE IF y >= h THEN FillFrom(image, x + 1, 0, w, h, c)
    ELSE LET pos == PixelPos(x, y, w * 4)
         IN  FillFrom([image EXCEPT ![pos + 1] = c.R, ![pos + 2] = c.G,
                                    ![pos + 3] = c.B, ![pos + 4] = c.A],
                      x, y + 1, w, h, c)

\* image := make([]byte, imageSize*4) and the fill loop (main.go 244-253)
FillImage(w, h, c) == FillFrom([i \in 1..(w * h * 4) |-> 0], 0, 0, w, h, c)

MakeFrame(c) ==
    IF conf.version = "v1" THEN FillImage(conf.width, conf.height, c)
    ELSE IF conf.version = "v2" THEN UniformImage(conf.width, conf.height, c)
    ELSE c

\* the frame of one pair at one frame index
PairFrame(left, right, frame) ==
    MakeFrame(lerp(left, right, FrameRatio(frame, conf.transitionFrames)))

\* capacity of the frame channel: main.go 139-142, main.go 446
FrameCap ==
    IF conf.version = "v1" THEN conf.width * conf.height * 4 * conf.transitionFrames
    ELSE conf.transitionFrames * 3

CanRecvColor == colorChannel # <<>> \/ colorClosed

\* v, ok := <-colorChannel; if !ok { done = true }; slot = v
SynthRecv(slot, next) ==
    /\ ~Crashed
    /\ IF synth[slot] = Nil
       THEN /\ CanRecvColor
            /\ IF colorChannel # <<>>
               THEN /\ synth' = [synth EXCEPT ![slot] = Head(colorChannel), !.pc = next,
                                              !.frame = 0]
                    /\ colorChannel' = Tail(colorChannel)
                    /\ hist' = [hist EXCEPT !.recvd = Append(@, Head(colorChannel))]
               ELSE /\ synth' = [synth EXCEPT ![slot] = Nil, !.done = TRUE, !.pc = next,
                                              !.frame = 0]
                    /\ UNCHANGED <<colorChannel, hist>>
       ELSE /\ synth' = [synth EXCEPT !.pc = next, !.frame = 0]
            /\ UNCHANGED <<colorChannel, hist>>
    /\ UNCHANGED <<producer, ffmpeg, colErrChan, conf, colorClosed, errorChannel, ctxDone,
                   fetch, coord, crashed>>
    /\ UNCHANGED readerVars

SynthLeft == synth.pc = "left" /\ SynthRecv("left", "right")
SynthRight == synth.pc = "right" /\ SynthRecv("right", "frames")

\* the loop condition of the frame loop
FrameLoopInclusive(frame) == frame <= conf.transitionFrames
FrameLoopMore(frame) == frame < conf.transitionFrames

\* one iteration of the frame loop: interpolate, fill, send
SynthFrame ==
    /\ ~Crashed
    /\ synth.pc = "frames"
    /\ FrameLoopMore(synth.frame)
    /\ IF synth.left = Nil \/ synth.right = Nil
       THEN /\ crashed' = "nil dereference"
            /\ UNCHANGED <<imageChannel, enq, synth>>
       ELSE /\ Len(imageChannel) < FrameCap \/ imageClosed
            /\ IF imageClosed
               THEN /\ crashed' = "send on closed channel"
                    /\ UNCHANGED <<imageChannel, enq, synth>>
               ELSE LET img == PairFrame(Deref(synth.left), Deref(synth.right), synth.frame)
                    IN  /\ imageChannel' = Append(imageChannel, img)
                        /\ enq' = Append(enq, img)
                        /\ synth' = [synth EXCEPT !.frame = @ + 1]
                        /\ UNCHANGED crashed
    /\ UNCHANGED <<producer, ffmpeg, colErrChan, conf, colorChannel, colorClosed,
                   errorChannel, ctxDone, fetch, coord, hist>>
    /\ UNCHANGED <<imageClosed, fi, rd, got>>

\* left = right; right = nil
ShiftKeepLeft(s) == [s EXCEPT !.right = Nil, !.frame = 0]
ShiftColors(s) == [s EXCEPT !.left = s.right, !.right = Nil, !.frame = 0]

\* if done { break }: where the goroutine goes after a pair
ShiftPcNoBreak(done) == "left"
ShiftPc(done) == IF done THEN "done" ELSE "left"

\* after the frame loop: left = right; right = nil; if done { break }; then
\* close(imageChannel)
SynthShift ==
    /\ ~Crashed
    /\ synth.pc = "frames"
    /\ ~FrameLoopMore(synth.frame)
    /\ LET s1 == ShiftColors(synth)
       IN  IF synth.done
           THEN /\ synth' = [s1 EXCEPT !.pc = ShiftPc(synth.done)]
                /\ IF imageClosed
                   THEN crashed' = "close of closed channel" /\ UNCHANGED imageClosed
                   ELSE imageClosed' = TRUE /\ UNCHANGED crashed
                /\ hist' = [hist EXCEPT !.closeLog = CloseLog(@, "imageChannel", "synth"),
                                        !.pairs = @ + 1]
           ELSE /\ synth' = [s1 EXCEPT !.pc = ShiftPc(synth.done)]
                /\ hist' = [hist EXCEPT !.pairs = @ + 1]
                /\ UNCHANGED <<imageClosed, crashed>>
    /\ UNCHANGED <<producer, ffmpeg, colErrChan, conf, colorChannel, colorClosed,
                   errorChannel, ctxDone, fetch, coord>>
    /\ UNCHANGED <<imageChannel, fi, rd, got, enq>>

Synth == SynthLeft \/ SynthRight \/ SynthFrame \/ SynthShift

----------------------------------------------------------------------------
(* The loop at the end of main (main.go 266-279) and the signal *)

\* case <-ctx.Done(): stop(); done = true
CoordDone ==
    /\ ~Crashed
    /\ coord.pc = "loop"
    /\ ctxDone
    /\ coord' = [pc |-> "wait"]
    /\ UNCHANGED <<producer, ffmpeg, colErrChan, conf, colorChannel, colorClosed,
                   errorChannel, ctxDone, fetch, synth, crashed, hist>>
    /\ UNCHANGED readerVars

\* case err := <-errorChannel: log
CoordErr ==
    /\ ~Crashed
    /\ coord.pc = "loop"
    /\ errorChannel # <<>>
    /\ errorChannel' = Tail(errorChannel)
    /\ UNCHANGED <<producer, ffmpeg, colErrChan, conf, colorChannel, colorClosed, ctxDone,
                   fetch, synth, coord, crashed, hist>>
    /\ UNCHANGED readerVars

Coord == CoordDone \/ CoordErr

\* SIGTERM or SIGINT cancels the context of signal.NotifyContext
Signal ==
    /\ ~Crashed
    /\ ~ctxDone
    /\ ctxDone' = TRUE
    /\ UNCHANGED <<producer, ffmpeg, colErrChan, conf, colorChannel, colorClosed,
                   errorChannel, fetch, synth, coord, crashed, hist>>
    /\ UNCHANGED readerVars

\* the flags of the runs checked
MainConfs == {[version |-> "v1", width |-> 1, height |-> 1, transitionFrames |-> t] :
                t \in {0, 1}}

\* buffers ffmpeg's input copier reads with
MainBufLens == {6}
ReadMainCall == ReadCallWith(MainBufLens)

InitMain ==
    /\ imageChannel = <<>>
    /\ imageClosed = FALSE
    /\ fi = [image |-> Nil, idx |-> 0, ImageSize |-> 0]
    /\ rd = RdIdle
    /\ got = <<>>
    /\ enq = <<>>
    /\ \E c \in MainConfs : InitPipe(c)

Reader == ReadMainCall \/ ReadIterCopy

NextMain == Fetch \/ Synth \/ Reader \/ Coord \/ Signal

SpecMain == InitMain /\ [][NextMain]_vars

\* every goroutine that can run does run
FairSpecMain ==
    /\ SpecMain
    /\ WF_vars(Fetch)
    /\ WF_vars(Synth)
    /\ WF_vars(Reader)
    /\ WF_vars(CoordDone)
    /\ WF_vars(CoordErr)

-----------------------------------------------------------------------------
(* LinearGradientTransition.Run between its two channels: whoever holds    *)
(* ColorChannel sends colours and may close it, Run makes the frames, Read  *)
(* takes them. Version "v2" is main with image frames (main.go 507-514),    *)
(* version "color" the main of unnamed/part_000 with colour frames.         *)

FrameColors == {ApiColor(0), ApiColor(200)}
FrameBufLens == {4, 8}
FrameConfs ==
    {[version |-> v, width |-> r[1], height |-> r[2], transitionFrames |-> t] :
        v \in {"v2", "color"}, r \in TestRects, t \in {1, 2}}

\* colorChannel <- c by the palette source
SendColorFrom(cols) ==
    /\ ~Crashed
    /\ ~colorClosed
    /\ Len(hist.sent) < MaxColors
    /\ Len(colorChannel) < colorChanSize
    /\ \E c \in cols :
         /\ colorChannel' = Append(colorChannel, c)
         /\ hist' = [hist EXCEPT !.sent = Append(@, c)]
    /\ UNCHANGED <<producer, ffmpeg, colErrChan, conf, colorClosed, errorChannel, ctxDone,
                   fetch, synth, coord, crashed>>
    /\ UNCHANGED readerVars

SendColor == SendColorFrom(FrameColors)

\* close(colorChannel) by the palette source
CloseColors ==
    /\ ~Crashed
    /\ ~colorClosed
    /\ colorClosed' = TRUE
    /\ hist' = [hist EXCEPT !.closeLog = CloseLog(@, "colorChannel", "fetch")]
    /\ UNCHANGED <<producer, ffmpeg, colErrChan, conf, colorChannel, errorChannel, ctxDone,
                   fetch, synth, coord, crashed>>
    /\ UNCHANGED readerVars

ReadFrameCall == ReadCallWith(FrameBufLens)
ReadFrameImage == conf.version = "v2" /\ ReadIterImage
ReadFrameColor == conf.version = "color" /\ ReadIterColor

InitFrame ==
    /\ imageChannel = <<>>
    /\ imageClosed = FALSE
    /\ rd = RdIdle
    /\ got = <<>>
    /\ enq = <<>>
    /\ \E c \in FrameConfs :
         /\ InitPipe(c)
         /\ fi = [image |-> Nil, idx |-> 0,
                  ImageSize |-> IF c.version = "color" THEN c.width * c.height ELSE 0]

NextFrame ==
    \/ SendColor
    \/ CloseColors
    \/ Synth
    \/ ReadFrameCall
    \/ ReadFrameImage
    \/ ReadFrameColor

SpecFrame == InitFrame /\ [][NextFrame]_vars

-----------------------------------------------------------------------------
(* Producer.fillColors of the earlier image package (lineargradient.go      *)
(* 379-404) with its colour queue, its ErrorChannel and Stop. The flag      *)
(* p.stopping is read and written without synchronisation: a read after    *)
(* Stop may still see false.                                                *)

colorQueueSize == 16

FillInit == [pc |-> "fetch", slowCount |-> 10, previous |-> Nil, pal |-> Nil, i |-> 0,
             err |-> "none"]

\* what a read of p.stopping can return
ReadStopping == IF producer.stopping THEN {TRUE, FALSE} ELSE {FALSE}

\* for !p.stopping { pal, err := p.ColorMind.GetPalette(p.model, previous)
FillGet ==
    /\ ~Crashed
    /\ fetch.pc = "fetch"
    /\ \E seen \in ReadStopping :
         IF seen
         THEN fetch' = [fetch EXCEPT !.pc = "close"] /\ UNCHANGED hist
         ELSE /\ hist.nFetch < MaxFetch
              /\ \E res \in GetPaletteWithContext(FALSE, fetch.previous) :
                   /\ fetch' = [fetch EXCEPT !.pc = IF res.err # "none" THEN "senderr"
                                                   ELSE "enqueue",
                                            !.pal = res.pal, !.err = res.err, !.i = 0]
                   /\ hist' = [hist EXCEPT
                                 !.nFetch = @ + 1,
                                 !.fetched = IF res.err # "none" THEN @
                                             ELSE Append(@, Deref(res.pal))]
    /\ UNCHANGED <<producer, ffmpeg, colErrChan, conf, colorChannel, colorClosed,
                   errorChannel, ctxDone, synth, coord, crashed>>
    /\ UNCHANGED readerVars

\* p.ErrorChannel <- fmt.Errorf("getting palette: %w", err), and on to line 392
FillSendErr ==
    /\ ~Crashed
    /\ fetch.pc = "senderr"
    /\ Len(errorChannel) < errorChanSize
    /\ errorChannel' = Append(errorChannel, fetch.err)
    /\ hist' = [hist EXCEPT !.nErr = @ + 1]
    /\ fetch' = [fetch EXCEPT !.pc = "seed", !.err = "none"]
    /\ UNCHANGED <<producer, ffmpeg, colErrChan, conf, colorChannel, colorClosed, ctxDone,
                   synth, coord, crashed>>
    /\ UNCHANGED readerVars

\* for i := 0; i < len(pal); i++ { p.colorQueue <- pal[i] }
FillEnqueue ==
    /\ ~Crashed
    /\ fetch.pc = "enqueue"
    /\ Len(colorChannel) < colorQueueSize
    /\ colorChannel' = Append(colorChannel, Deref(fetch.pal)[fetch.i + 1])
    /\ hist' = [hist EXCEPT !.sent = Append(@, Deref(fetch.pal)[fetch.i + 1])]
    /\ fetch' = [fetch EXCEPT !.i = @ + 1, !.pc = IF fetch.i + 1 < 5 THEN "enqueue" ELSE "seed"]
    /\ UNCHANGED <<producer, ffmpeg, colErrChan, conf, colorClosed, errorChannel, ctxDone,
                   synth, coord, crashed>>
    /\ UNCHANGED readerVars

\* if previous == nil { previous = &colormind.Palette{} }; previous[0] = pal[3];
\* previous[1] = pal[4]; the pacing sleep
FillSeed ==
    /\ ~Crashed
    /\ fetch.pc = "seed"
    /\ IF fetch.pal = Nil
       THEN /\ crashed' = "nil dereference"
            /\ fetch' = [fetch EXCEPT !.previous = IF @ = Nil
                                                   THEN Ptr(<<Nil, Nil, Nil, Nil, Nil>>) ELSE @]
       ELSE /\ fetch' = [fetch EXCEPT !.previous = NextPrevious(fetch.previous, fetch.pal),
                                      !.slowCount = IF @ > 0 THEN @ - 1 ELSE @,
                                      !.pal = Nil, !.i = 0, !.pc = "fetch"]
            /\ UNCHANGED crashed
    /\ UNCHANGED <<producer, ffmpeg, colErrChan, conf, colorChannel, colorClosed,
                   errorChannel, ctxDone, synth, coord, hist>>
    /\ UNCHANGED readerVars

\* close(p.colorQueue)
FillClose ==
    /\ ~Crashed
    /\ fetch.pc = "close"
    /\ colorClosed' = TRUE
    /\ fetch' = [fetch EXCEPT !.pc = "done"]
    /\ hist' = [hist EXCEPT !.closeLog = CloseLog(@, "colorChannel", "fetch")]
    /\ UNCHANGED <<producer, ffmpeg, colErrChan, conf, colorChannel, errorChannel, ctxDone,
                   synth, coord, crashed>>
    /\ UNCHANGED readerVars

\* Producer.Stop
Stop ==
    /\ ~Crashed
    /\ ~producer.stopping
    /\ producer' = [producer EXCEPT !.stopping = TRUE]
    /\ UNCHANGED <<ffmpeg, colErrChan, conf, colorChannel, colorClosed, errorChannel, ctxDone,
                   fetch, synth, coord, crashed, hist>>
    /\ UNCHANGED readerVars

\* for col := range p.colorQueue in makeImages takes a colour
TakeColor ==
    /\ ~Crashed
    /\ colorChannel # <<>>
    /\ colorChannel' = Tail(colorChannel)
    /\ hist' = [hist EXCEPT !.recvd = Append(@, Head(colorChannel))]
    /\ UNCHANGED <<producer, ffmpeg, colErrChan, conf, colorClosed, errorChannel, ctxDone,
                   fetch, synth, coord, crashed>>
    /\ UNCHANGED readerVars

\* the owner of ErrorChannel takes an error
TakeError ==
    /\ ~Crashed
    /\ errorChannel # <<>>
    /\ errorChannel' = Tail(errorChannel)
    /\ UNCHANGED <<producer, ffmpeg, colErrChan, conf, colorChannel, colorClosed, ctxDone,
                   fetch, synth, coord, crashed, hist>>
    /\ UNCHANGED readerVars

InitFill ==
    /\ imageChannel = <<>>
    /\ imageClosed = FALSE
    /\ fi = [image |-> Nil, idx |-> 0, ImageSize |-> 0]
    /\ rd = RdIdle
    /\ got = <<>>
    /\ enq = <<>>
    /\ conf = [version |-> "producer", width |-> 1, height |-> 1, transitionFrames |-> 1]
    /\ producer = [stopping |-> FALSE]
    /\ ffmpeg = [pc |-> "run", err |-> "none"]
    /\ colErrChan = <<>>
    /\ colorChannel = <<>>
    /\ colorClosed = FALSE
    /\ errorChannel = <<>>
    /\ ctxDone = FALSE
    /\ fetch = FillInit
    /\ synth = SynthInit
    /\ coord = [pc |-> "loop"]
    /\ crashed = "none"
    /\ hist = HistInit

NextFill ==
    \/ FillGet
    \/ FillSendErr
    \/ FillEnqueue
    \/ FillSeed
    \/ FillClose
    \/ Stop
    \/ TakeColor
    \/ TakeError

SpecFill == InitFill /\ [][NextFill]_vars

-----------------------------------------------------------------------------
(* The loop at the end of main with errFfmpegExit (main.go 516-535 and the *)
(* third main, part_000 320-337), the goroutine that waits for ffmpeg and   *)
(* the error path of the palette goroutine                                  *)

\* var errFfmpegExit = errors.New("ffmpeg errorred")
errFfmpegExit == "ffmpeg errorred"
\* what proc.Wait or proc.Run returns when the process failed
ExitError == "exit status 1"
\* fmt.Errorf("%w: %w", errFfmpegExit, err)
FfmpegFailed == "ffmpeg errorred: exit status 1"

\* the errors the palette client builds around its sentinels (colormind.go
\* 136, 146, 149, 153, 162)
PostFailed == "ErrPost: dial"
StatusReadFailed == "error reading response body: read"
StatusFailed == "ErrResponseStatus (status): contents"
ReadFailed == "ErrReadBody: read"
ParseFailed == "ErrParseBody: syntax"

\* the errors an error wraps; errors of the palette client wrap none of main's
Unwrap(err) ==
    CASE err = FfmpegFailed -> {errFfmpegExit, ExitError}
      [] err = PostFailed -> {"ErrPost", "dial"}
      [] err = StatusReadFailed -> {"read"}
      [] err = StatusFailed -> {"ErrResponseStatus"}
      [] err = ReadFailed -> {"ErrReadBody", "read"}
      [] err = ParseFailed -> {"ErrParseBody", "syntax"}
      [] OTHER -> {}

ErrorsIsAny(err, target) == err # "none"
ErrorsIsEqual(err, target) == err = target
\* errors.Is(err, target)
ErrorsIs(err, target) == err = target \/ target \in Unwrap(err)

\* capacity of the error channel PaletteQueue returns
MaxColErr == 1

\* pal, err := cm.GetPaletteWithContext(...) returns an error
PaletteFail ==
    /\ fetch.pc = "fetch"
    /\ \E res \in GetPaletteWithContext(ctxDone, fetch.previous) :
         /\ res.err # "none"
         /\ fetch' = [fetch EXCEPT !.pc = "senderr", !.err = res.err]
    /\ UNCHANGED <<producer, ffmpeg, colErrChan, conf, colorChannel, colorClosed,
                   errorChannel, ctxDone, synth, coord, crashed, hist>>
    /\ UNCHANGED readerVars

\* errorChannel <- fmt.Errorf("getting palette: %w", err); continue
PaletteSendErr ==
    /\ fetch.pc = "senderr"
    /\ conf.version # "v2"
    /\ Len(errorChannel) < errorChanSize
    /\ errorChannel' = Append(errorChannel, fetch.err)
    /\ fetch' = AfterError(fetch)
    /\ UNCHANGED <<producer, ffmpeg, colErrChan, conf, colorChannel, colorClosed, ctxDone,
                   synth, coord, crashed, hist>>
    /\ UNCHANGED readerVars

\* the palette queue of main.go 461 surfaces a failed fetch on the error
\* channel it returned and retries
PaletteQueueErr ==
    /\ fetch.pc = "senderr"
    /\ conf.version = "v2"
    /\ Len(colErrChan) < MaxColErr
    /\ colErrChan' = Append(colErrChan, fetch.err)
    /\ fetch' = AfterError(fetch)
    /\ UNCHANGED <<producer, ffmpeg, conf, colorChannel, colorClosed, errorChannel, ctxDone,
                   synth, coord, crashed, hist>>
    /\ UNCHANGED readerVars

\* the ffmpeg process ends: proc.Wait() / proc.Run() returns
FfmpegExit ==
    /\ ffmpeg.pc = "run"
    /\ \E e \in {"none", ExitError} : ffmpeg' = [pc |-> "exited", err |-> e]
    /\ UNCHANGED <<producer, colErrChan, conf, colorChannel, colorClosed, errorChannel,
                   ctxDone, fetch, synth, coord, crashed, hist>>
    /\ UNCHANGED readerVars

\* if err != nil { errorChannel <- fmt.Errorf("%w: %w", errFfmpegExit, err) }
FfmpegReport ==
    /\ ffmpeg.pc = "exited"
    /\ IF ffmpeg.err # "none"
       THEN /\ Len(errorChannel) < errorChanSize
            /\ errorChannel' = Append(errorChannel, FfmpegFailed)
       ELSE UNCHANGED errorChannel
    /\ ffmpeg' = [ffmpeg EXCEPT !.pc = IF conf.version = "v2" THEN "last" ELSE "done"]
    /\ UNCHANGED <<producer, colErrChan, conf, colorChannel, colorClosed, ctxDone, fetch,
                   synth, coord, crashed, hist>>
    /\ UNCHANGED readerVars

\* errorChannel <- errFfmpegExit (main.go 505)
FfmpegLast ==
    /\ ffmpeg.pc = "last"
    /\ Len(errorChannel) < errorChanSize
    /\ errorChannel' = Append(errorChannel, errFfmpegExit)
    /\ ffmpeg' = [ffmpeg EXCEPT !.pc = "done"]
    /\ UNCHANGED <<producer, colErrChan, conf, colorChannel, colorClosed, ctxDone, fetch,
                   synth, coord, crashed, hist>>
    /\ UNCHANGED readerVars

\* case <-ctx.Done(): stop(); done = true
CoordCtx ==
    /\ coord.pc = "loop"
    /\ ctxDone
    /\ coord' = [coord EXCEPT !.pc = "left"]
    /\ UNCHANGED <<producer, ffmpeg, colErrChan, conf, colorChannel, colorClosed,
                   errorChannel, ctxDone, fetch, synth, crashed, hist>>
    /\ UNCHANGED readerVars

\* case err := <-errorChannel: if errors.Is(err, errFfmpegExit) { stop(); done = true }
CoordRecv ==
    /\ coord.pc = "loop"
    /\ errorChannel # <<>>
    /\ errorChannel' = Tail(errorChannel)
    /\ IF ErrorsIs(Head(errorChannel), errFfmpegExit)
       THEN /\ ctxDone' = TRUE
            /\ coord' = [pc |-> "left", err |-> Head(errorChannel)]
       ELSE /\ coord' = [coord EXCEPT !.err = Head(errorChannel)]
            /\ UNCHANGED ctxDone
    /\ UNCHANGED <<producer, ffmpeg, colErrChan, conf, colorChannel, colorClosed, fetch,
                   synth, crashed, hist>>
    /\ UNCHANGED readerVars

\* case err := <-colErrChan: log (main.go 529-530)
CoordColErr ==
    /\ coord.pc = "loop"
    /\ conf.version = "v2"
    /\ colErrChan # <<>>
    /\ colErrChan' = Tail(colErrChan)
    /\ coord' = [coord EXCEPT !.err = Head(colErrChan)]
    /\ UNCHANGED <<producer, ffmpeg, conf, colorChannel, colorClosed, errorChannel, ctxDone,
                   fetch, synth, crashed, hist>>
    /\ UNCHANGED readerVars

CoordConfs == {[version |-> v, width |-> 1, height |-> 1, transitionFrames |-> 1] :
                 v \in {"v2", "color"}}

InitCoord ==
    /\ imageChannel = <<>>
    /\ imageClosed = FALSE
    /\ fi = [image |-> Nil, idx |-> 0, ImageSize |-> 0]
    /\ rd = RdIdle
    /\ got = <<>>
    /\ enq = <<>>
    /\ \E c \in CoordConfs : conf = c
    /\ producer = [stopping |-> FALSE]
    /\ ffmpeg = [pc |-> "run", err |-> "none"]
    /\ colErrChan = <<>>
    /\ colorChannel = <<>>
    /\ colorClosed = FALSE
    /\ errorChannel = <<>>
    /\ ctxDone = FALSE
    /\ fetch = FetchInit
    /\ synth = SynthInit
    /\ coord = [pc |-> "loop", err |-> "none"]
    /\ crashed = "none"
    /\ hist = HistInit

Palette == PaletteFail \/ PaletteSendErr \/ PaletteQueueErr
Ffmpeg == FfmpegExit \/ FfmpegReport \/ FfmpegLast

NextCoord == Palette \/ Ffmpeg \/ CoordCtx \/ CoordRecv \/ CoordColErr \/ Signal

SpecCoord == InitCoord /\ [][NextCoord]_vars

\* every goroutine that can run does run, the select takes each ready case in
\* turn, and a sender blocked on a full channel is served in arrival order
FairSpecCoord ==
    /\ SpecCoord
    /\ WF_vars(Palette)
    /\ WF_vars(FfmpegExit)
    /\ SF_vars(FfmpegReport)
    /\ SF_vars(FfmpegLast)
    /\ WF_vars(CoordCtx)
    /\ WF_vars(CoordRecv)
    /\ WF_vars(CoordColErr)

-----------------------------------------------------------------------------
(* GetPaletteWithContext called once with each seed (colormind.go 106-165) *)

\* the seeds: nil, or five entries each empty or a colour
SeedColors == {Nil, ApiColor(0), ApiColor(200)}
Seeds == {Nil} \cup {Ptr(s) : s \in [1..5 -> SeedColors]}

\* pal, err := c.GetPaletteWithContext(ctx, model, p)
SeedCall ==
    /\ fetch.pc = "call"
    /\ \E res \in GetPaletteWithContext(ctxDone, fetch.previous) :
         fetch' = [fetch EXCEPT !.pc = "returned", !.pal = res.pal, !.err = res.err,
                                !.req = res.req]
    /\ UNCHANGED <<producer, ffmpeg, colErrChan, conf, colorChannel, colorClosed,
                   errorChannel, ctxDone, synth, coord, crashed, hist>>
    /\ UNCHANGED readerVars

InitSeed ==
    /\ imageChannel = <<>>
    /\ imageClosed = FALSE
    /\ fi = [image |-> Nil, idx |-> 0, ImageSize |-> 0]
    /\ rd = RdIdle
    /\ got = <<>>
    /\ enq = <<>>
    /\ conf = [version |-> "colormind", width |-> 1, height |-> 1, transitionFrames |-> 1]
    /\ producer = [stopping |-> FALSE]
    /\ ffmpeg = [pc |-> "run", err |-> "none"]
    /\ colErrChan = <<>>
    /\ colorChannel = <<>>
    /\ colorClosed = FALSE
    /\ errorChannel = <<>>
    /\ ctxDone = FALSE
    /\ \E p \in Seeds : fetch = [pc |-> "call", previous |-> p, pal |-> Nil, err |-> "none",
                                 req |-> FALSE]
    /\ synth = SynthInit
    /\ coord = [pc |-> "loop"]
    /\ crashed = "none"
    /\ hist = HistInit

NextSeed == SeedCall \/ Signal

SpecSeed == InitSeed /\ [][NextSeed]_vars

-----------------------------------------------------------------------------
(* The frame loop of LinearGradientTransition.Run taken alone               *)
(* (lineargradient.go 251-261, and 176-178 with mix): the ratios and the   *)
(* frames of one pair after the other                                       *)

\* longest transition stepped through from frame 0
MaxTransition == 3

\* frames made in one run of the loop taken alone
MaxLerpFrames == 6

\* the colours of the pairs
LerpColors == {RGBA(0, 0, 0, 255), RGBA(255, 255, 255, 255), RGBA(15, 27, 30, 255)}

\* the transitions and the frame index the loop is observed from: every short
\* transition from its start, and the first transition that float32 does not
\* hold, near its end
LerpStarts == {<<t, 0>> : t \in 1..MaxTransition} \cup {<<2^24 + 1, 2^24 - 1>>}

\* ratio := float32(frame) / float32(lgt.Transition); color := lerp(left, right, ratio);
\* img := ...; lgt.ImageChannel <- img
LerpFrame ==
    /\ synth.pc = "frames"
    /\ FrameLoopMore(synth.frame)
    /\ synth.n < MaxLerpFrames
    /\ synth' = [synth EXCEPT
                   !.frame = @ + 1,
                   !.n = @ + 1,
                   !.prev = synth.ratio,
                   !.ratio = Ptr(FrameRatio(synth.frame, conf.transitionFrames)),
                   !.img = Ptr(PairFrame(Deref(synth.left), Deref(synth.right), synth.frame))]
    /\ UNCHANGED <<producer, ffmpeg, colErrChan, conf, colorChannel, colorClosed,
                   errorChannel, ctxDone, fetch, coord, crashed, hist>>
    /\ UNCHANGED readerVars

\* left = right; right = nil; and the next colour is received as right
LerpShift ==
    /\ synth.pc = "frames"
    /\ ~FrameLoopMore(synth.frame)
    /\ synth.n < MaxLerpFrames
    /\ \E c \in LerpColors :
         synth' = [synth EXCEPT !.left = synth.right, !.right = Ptr(c), !.frame = 0,
                                !.prev = Nil, !.ratio = Nil, !.img = Nil]
    /\ UNCHANGED <<producer, ffmpeg, colErrChan, conf, colorChannel, colorClosed,
                   errorChannel, ctxDone, fetch, coord, crashed, hist>>
    /\ UNCHANGED readerVars

InitLerp ==
    /\ imageChannel = <<>>
    /\ imageClosed = FALSE
    /\ fi = [image |-> Nil, idx |-> 0, ImageSize |-> 0]
    /\ rd = RdIdle
    /\ got = <<>>
    /\ enq = <<>>
    /\ producer = [stopping |-> FALSE]
    /\ ffmpeg = [pc |-> "run", err |-> "none"]
    /\ colErrChan = <<>>
    /\ colorChannel = <<>>
    /\ colorClosed = FALSE
    /\ errorChannel = <<>>
    /\ ctxDone = FALSE
    /\ fetch = FetchInit
    /\ coord = [pc |-> "loop"]
    /\ crashed = "none"
    /\ hist = HistInit
    /\ \E st \in LerpStarts, l \in LerpColors, r \in LerpColors :
         /\ conf = [version |-> "v2", width |-> 1, height |-> 1, transitionFrames |-> st[1]]
         /\ synth = [pc |-> "frames", left |-> Ptr(l), right |-> Ptr(r), done |-> FALSE,
                     frame |-> st[2], n |-> 0, prev |-> Nil, ratio |-> Nil,
                     img |-> Nil]

NextLerp == LerpFrame \/ LerpShift

SpecLerp == InitLerp /\ [][NextLerp]_vars

-----------------------------------------------------------------------------
(* The gradient-fill goroutine of the first main (main.go 220-264) fed      *)
(* with colours by the palette source                                       *)

GradColors == {Ptr(RGBA(0, 0, 0, 255)), Ptr(RGBA(255, 255, 255, 255))}
GradConfs ==
    {[version |-> "v1", width |-> r[1], height |-> r[2], transitionFrames |-> t] :
        r \in {<<4, 2>>, <<1, 2>>}, t \in {1, 2}}

SendGradColor == SendColorFrom(GradColors)

InitGradient ==
    /\ imageChannel = <<>>
    /\ imageClosed = FALSE
    /\ fi = [image |-> Nil, idx |-> 0, ImageSize |-> 0]
    /\ rd = RdIdle
    /\ got = <<>>
    /\ enq = <<>>
    /\ \E c \in GradConfs : InitPipe(c)

NextGradient == SendGradColor \/ CloseColors \/ Synth

SpecGradient == InitGradient /\ [][NextGradient]_vars

-----------------------------------------------------------------------------
(* GetPaletteWithContext from the request on (colormind.go 134-165): one   *)
(* call for each answer of the transport                                    *)

\* what c.Client.Do and the reads of the body can give: do is the outcome of
\* the transport, status the status code, read the outcome of io.ReadAll,
\* body what was read: the sentinel bytes "empty body\n", bytes that are not
\* the JSON of a response, JSON without a result, or JSON with a palette
Bodies == {[kind |-> "sentinel", result |-> Nil], [kind |-> "garbage", result |-> Nil],
           [kind |-> "json", result |-> Nil]}
          \cup {[kind |-> "json", result |-> Ptr(q)] : q \in Palettes}
Responses == [do : {"ok", "fail"}, status : {200, 404, 500}, read : {"ok", "fail"},
              body : Bodies]

\* resp.StatusCode != http.StatusOK is false
StatusOK(status) == status = 200

\* json.Unmarshal(b, &respOpts) and &respOpts.Result: a body without result
\* leaves the five entries nil
ParsedResult(body) ==
    IF body.result = Nil THEN Ptr(<<Nil, Nil, Nil, Nil, Nil>>) ELSE body.result

\* resp, err := c.Client.Do(req) and what follows it
PostPalette(resp) ==
    IF resp.do = "fail" THEN [pal |-> Nil, err |-> PostFailed]
    ELSE IF ~StatusOK(resp.status)
         THEN IF resp.read = "fail" THEN [pal |-> Nil, err |-> StatusReadFailed]
              ELSE [pal |-> Nil, err |-> StatusFailed]
    ELSE IF resp.read = "fail" THEN [pal |-> Nil, err |-> ReadFailed]
    ELSE IF resp.body.kind = "sentinel" THEN [pal |-> Nil, err |-> "ErrEmptyBody"]
    ELSE IF resp.body.kind = "garbage" THEN [pal |-> Nil, err |-> ParseFailed]
    ELSE [pal |-> ParsedResult(resp.body), err |-> "none"]

\* pal, err := c.GetPaletteWithContext(ctx, model, nil) answered with resp
PostCall ==
    /\ fetch.pc = "call"
    /\ LET res == PostPalette(fetch.resp)
       IN  fetch' = [fetch EXCEPT !.pc = "returned", !.pal = res.pal, !.err = res.err]
    /\ UNCHANGED <<producer, ffmpeg, colErrChan, conf, colorChannel, colorClosed,
                   errorChannel, ctxDone, synth, coord, crashed, hist>>
    /\ UNCHANGED readerVars

InitPost ==
    /\ imageChannel = <<>>
    /\ imageClosed = FALSE
    /\ fi = [image |-> Nil, idx |-> 0, ImageSize |-> 0]
    /\ rd = RdIdle
    /\ got = <<>>
    /\ enq = <<>>
    /\ conf = [version |-> "colormind", width |-> 1, height |-> 1, transitionFrames |-> 1]
    /\ producer = [stopping |-> FALSE]
    /\ ffmpeg = [pc |-> "run", err |-> "none"]
    /\ colErrChan = <<>>
    /\ colorChannel = <<>>
    /\ colorClosed = FALSE
    /\ errorChannel = <<>>
    /\ ctxDone = FALSE
    /\ \E r \in Responses : fetch = [pc |-> "call", resp |-> r, pal |-> Nil, err |-> "none"]
    /\ synth = SynthInit
    /\ coord = [pc |-> "loop"]
    /\ crashed = "none"
    /\ hist = HistInit

NextPost == PostCall

SpecPost == InitPost /\ [][NextPost]_vars

-----------------------------------------------------------------------------
(* image.Producer (internal/image/producer.go): Start runs getPalettes and *)
(* makeImages, Stop sets the flag, the caller takes from ImageChannel and  *)
(* ErrorChannel. conf holds the options of NewProducer. producer.late      *)
(* tells whether a second had passed since makeImages took its start time  *)
(* when a transition ended.                                                *)

\* the encoder fails at most this many times
MaxEncErr == 1

ProducerConfs ==
    {[version |-> "producer", width |-> 1, height |-> 1, transitionFrames |-> t,
      colorQueueSize |-> 5 - 2 * t, imgChanSize |-> 1] : t \in {1, 2}}

ProducerInit == [pc |-> "fetch", start |-> 0, slowCount |-> conf.colorQueueSize \div 3,
                 previous |-> Nil, pal |-> Nil, i |-> 0, err |-> "none"]

MakeImagesInit == [pc |-> "range", left |-> Nil, right |-> Nil, lastFrame |-> 0, frame |-> 0]

\* p.ColorMind.GetPalette(p.model, previous) of colormind.go 102-104, the
\* API answering every request with the same palette
GetPalette(previous) ==
    {res \in GetPaletteWithContext(FALSE, previous) :
        res.pal = Nil \/ (Deref(res.pal) \in Palettes /\ Deref(res.pal)[1] = ApiColor(0))}

\* p.colorQueue = make(...); p.stopping = false, the first statements of Start
StartInit ==
    /\ ~Crashed
    /\ coord.pc = "init"
    /\ coord' = [coord EXCEPT !.pc = "running"]
    /\ producer' = [producer EXCEPT !.stopping = FALSE]
    /\ UNCHANGED <<ffmpeg, colErrChan, conf, colorChannel, colorClosed, errorChannel,
                   ctxDone, fetch, synth, crashed, hist>>
    /\ UNCHANGED readerVars

\* p.makeImages() has returned: return nil
StartReturn ==
    /\ ~Crashed
    /\ coord.pc = "running"
    /\ synth.pc = "done"
    /\ coord' = [coord EXCEPT !.pc = "returned"]
    /\ UNCHANGED <<producer, ffmpeg, colErrChan, conf, colorChannel, colorClosed,
                   errorChannel, ctxDone, fetch, synth, crashed, hist>>
    /\ UNCHANGED readerVars

\* Producer.Stop, called once while Start runs: p.stopping = true
ProducerStop ==
    /\ ~Crashed
    /\ coord.pc # "returned"
    /\ ~producer.stopCalled
    /\ producer' = [producer EXCEPT !.stopping = TRUE, !.stopCalled = TRUE]
    /\ UNCHANGED <<ffmpeg, colErrChan, conf, colorChannel, colorClosed, errorChannel,
                   ctxDone, fetch, synth, coord, crashed, hist>>
    /\ UNCHANGED readerVars

\* for !p.stopping, the read that sees the flag set
GetPalettesSeeStop ==
    /\ ~Crashed
    /\ coord.pc # "init"
    /\ fetch.pc = "fetch"
    /\ TRUE \in ReadStopping
    /\ fetch' = [fetch EXCEPT !.pc = "close"]
    /\ UNCHANGED <<producer, ffmpeg, colErrChan, conf, colorChannel, colorClosed,
                   errorChannel, ctxDone, synth, coord, crashed, hist>>
    /\ UNCHANGED readerVars

\* for !p.stopping { pal, err := p.ColorMind.GetPalette(p.model, previous):
\* the read that finds the flag unset, and the call. Calls are counted up to
\* MaxFetch; once Stop was called a failing call is not counted.
GetPalettesGet ==
    /\ ~Crashed
    /\ coord.pc # "init"
    /\ fetch.pc = "fetch"
    /\ FALSE \in ReadStopping
    /\ \E res \in GetPalette(fetch.previous) :
         LET free == producer.stopCalled /\ res.err # "none"
         IN  /\ free \/ hist.nFetch < MaxFetch
             /\ fetch' = [fetch EXCEPT !.pc = IF res.err # "none" THEN "senderr"
                                             ELSE "enqueue",
                                      !.pal = res.pal, !.err = res.err, !.i = fetch.start]
             /\ hist' = [hist EXCEPT
                           !.nFetch = IF free THEN @ ELSE @ + 1,
                           !.fetched = IF res.err # "none" THEN @
                                       ELSE Append(@, Deref(res.pal))]
    /\ UNCHANGED <<producer, ffmpeg, colErrChan, conf, colorChannel, colorClosed,
                   errorChannel, ctxDone, synth, coord, crashed>>
    /\ UNCHANGED readerVars

\* p.ErrorChannel <- fmt.Errorf("getting palette: %w", err); continue
GetPalettesSendErr ==
    /\ ~Crashed
    /\ fetch.pc = "senderr"
    /\ Len(errorChannel) < conf.imgChanSize
    /\ errorChannel' = Append(errorChannel, fetch.err)
    /\ hist' = [hist EXCEPT !.nErr = IF producer.stopCalled THEN @ ELSE @ + 1]
    /\ fetch' = AfterError(fetch)
    /\ UNCHANGED <<producer, ffmpeg, colErrChan, conf, colorChannel, colorClosed, ctxDone,
                   synth, coord, crashed>>
    /\ UNCHANGED readerVars

\* for i := start; i < len(pal); i++ { p.colorQueue <- pal[i] }
GetPalettesEnqueue ==
    /\ ~Crashed
    /\ fetch.pc = "enqueue"
    /\ Len(colorChannel) < conf.colorQueueSize
    /\ colorChannel' = Append(colorChannel, Deref(fetch.pal)[fetch.i + 1])
    /\ hist' = [hist EXCEPT !.sent = Append(@, Deref(fetch.pal)[fetch.i + 1])]
    /\ fetch' = FetchNextI(fetch)
    /\ UNCHANGED <<producer, ffmpeg, colErrChan, conf, colorClosed, errorChannel, ctxDone,
                   synth, coord, crashed>>
    /\ UNCHANGED readerVars

SleepsAlways(slowCount) == TRUE
\* if slowCount > 0
Sleeps(slowCount) == slowCount > 0

\* the seed, start = 2, and if slowCount > 0 { time.Sleep(2 * time.Second); slowCount-- }
GetPalettesPace ==
    /\ ~Crashed
    /\ fetch.pc = "pace"
    /\ fetch' = [fetch EXCEPT !.previous = NextPrevious(fetch.previous, fetch.pal),
                              !.start = NextStart(fetch.previous, fetch.start),
                              !.slowCount = IF Sleeps(@) THEN @ - 1 ELSE @,
                              !.pal = Nil, !.i = 0, !.pc = "fetch"]
    /\ hist' = [hist EXCEPT !.pauses = IF Sleeps(fetch.slowCount) THEN @ + 1 ELSE @]
    /\ UNCHANGED <<producer, ffmpeg, colErrChan, conf, colorChannel, colorClosed,
                   errorChannel, ctxDone, synth, coord, crashed>>
    /\ UNCHANGED readerVars

\* close(p.colorQueue)
GetPalettesClose ==
    /\ ~Crashed
    /\ fetch.pc = "close"
    /\ colorClosed' = TRUE
    /\ fetch' = [fetch EXCEPT !.pc = "done"]
    /\ hist' = [hist EXCEPT !.closeLog = CloseLog(@, "colorChannel", "fetch")]
    /\ UNCHANGED <<producer, ffmpeg, colErrChan, conf, colorChannel, errorChannel, ctxDone,
                   synth, coord, crashed>>
    /\ UNCHANGED readerVars

GetPalettes ==
    \/ GetPalettesSeeStop
    \/ GetPalettesGet
    \/ GetPalettesSendErr
    \/ GetPalettesEnqueue
    \/ GetPalettesPace
    \/ GetPalettesClose

\* for col := range p.colorQueue: the first colour becomes left, the second
\* right; a colour that arrives when both are set starts the frames of the pair
MakeImagesRange ==
    /\ ~Crashed
    /\ coord.pc = "running"
    /\ synth.pc = "range"
    /\ CanRecvColor
    /\ IF colorChannel = <<>>
       THEN /\ synth' = [synth EXCEPT !.pc = "done"]
            /\ UNCHANGED <<colorChannel, hist>>
       ELSE LET col == Head(colorChannel)
            IN  /\ colorChannel' = Tail(colorChannel)
                /\ IF synth.left = Nil
                   THEN /\ synth' = [synth EXCEPT !.left = col]
                        /\ hist' = [hist EXCEPT !.recvd = Append(@, col)]
                   ELSE IF synth.right = Nil
                   THEN /\ synth' = [synth EXCEPT !.right = col]
                        /\ hist' = [hist EXCEPT !.recvd = Append(@, col)]
                   ELSE /\ synth' = [synth EXCEPT !.pc = "frames", !.frame = 0]
                        /\ hist' = [hist EXCEPT
                                      !.recvd = Append(@, col),
                                      !.trans = Append(@, <<synth.left, synth.right>>)]
    /\ UNCHANGED <<producer, ffmpeg, colErrChan, conf, colorClosed, errorChannel, ctxDone,
                   fetch, coord, crashed>>
    /\ UNCHANGED <<imageChannel, imageClosed, fi, rd, got, enq>>

\* the image of one frame index: lerp and img.Set on every pixel
ProducerImage(left, right, frame) ==
    UniformImage(conf.width, conf.height,
                 lerp(Deref(left), Deref(right), FrameRatio(frame, conf.transitionFrames)))

AfterEncodeErrorBreak(frame) == conf.transitionFrames
\* continue in the frame loop
AfterEncodeError(frame) == frame + 1

\* one iteration of the frame loop: the encoder writes the image and the
\* frame is sent on ImageChannel, or the encoder fails and the error is sent
\* on ErrorChannel
MakeImagesFrame ==
    /\ ~Crashed
    /\ synth.pc = "frames"
    /\ FrameLoopMore(synth.frame)
    /\ LET out == [Frame |-> synth.lastFrame + synth.frame,
                   Image |-> ProducerImage(synth.left, synth.right, synth.frame).Pix]
       IN  \/ /\ Len(imageChannel) < conf.imgChanSize
              /\ imageChannel' = Append(imageChannel, out)
              /\ enq' = Append(enq, out)
              /\ synth' = [synth EXCEPT !.frame = @ + 1]
              /\ UNCHANGED <<errorChannel, hist>>
           \/ /\ Len(hist.encErrs) < MaxEncErr
              /\ Len(errorChannel) < conf.imgChanSize
              /\ errorChannel' = Append(errorChannel, "ErrEncodeImage")
              /\ hist' = [hist EXCEPT !.encErrs = Append(@, out.Frame)]
              /\ synth' = [synth EXCEPT !.frame = AfterEncodeError(@)]
              /\ UNCHANGED <<imageChannel, enq>>
    /\ UNCHANGED <<producer, ffmpeg, colErrChan, conf, colorChannel, colorClosed, ctxDone,
                   fetch, coord, crashed>>
    /\ UNCHANGED <<imageClosed, fi, rd, got>>

\* lastFrame += p.TransitionFrames; left = right; right = nil; the speed log
\* divides by int(time.Since(start).Seconds()), which is 0 in the first second
MakeImagesShift ==
    /\ ~Crashed
    /\ synth.pc = "frames"
    /\ ~FrameLoopMore(synth.frame)
    /\ synth' = [synth EXCEPT !.lastFrame = @ + conf.transitionFrames,
                              !.left = synth.right, !.right = Nil, !.pc = "range"]
    /\ \E late \in (IF producer.late THEN {TRUE} ELSE {TRUE, FALSE}) :
         /\ producer' = [producer EXCEPT !.late = late]
         /\ crashed' = IF late THEN crashed ELSE "integer divide by zero"
    /\ UNCHANGED <<ffmpeg, colErrChan, conf, colorChannel, colorClosed,
                   errorChannel, ctxDone, fetch, coord, hist>>
    /\ UNCHANGED readerVars

MakeImages == MakeImagesRange \/ MakeImagesFrame \/ MakeImagesShift

\* the caller takes a frame from ImageChannel
TakeImage ==
    /\ ~Crashed
    /\ imageChannel # <<>>
    /\ imageChannel' = Tail(imageChannel)
    /\ UNCHANGED <<imageClosed, fi, rd, got, enq>>
    /\ UNCHANGED pipeVars

InitProducer ==
    /\ imageChannel = <<>>
    /\ imageClosed = FALSE
    /\ fi = [image |-> Nil, idx |-> 0, ImageSize |-> 0]
    /\ rd = RdIdle
    /\ got = <<>>
    /\ enq = <<>>
    /\ \E c \in ProducerConfs : conf = c
    /\ producer = [stopping |-> FALSE, late |-> FALSE, stopCalled |-> FALSE]
    /\ ffmpeg = [pc |-> "run", err |-> "none"]
    /\ colErrChan = <<>>
    /\ colorChannel = <<>>
    /\ colorClosed = FALSE
    /\ errorChannel = <<>>
    /\ ctxDone = FALSE
    /\ fetch = ProducerInit
    /\ synth = MakeImagesInit
    /\ coord = [pc |-> "init"]
    /\ crashed = "none"
    /\ hist = [fetched |-> <<>>, sent |-> <<>>, recvd |-> <<>>, closeLog |-> <<>>,
               nFetch |-> 0, nErr |-> 0, pairs |-> 0, trans |-> <<>>, encErrs |-> <<>>,
               pauses |-> 0]

Start == StartInit \/ StartReturn

NextProducer == Start \/ GetPalettes \/ MakeImages \/ ProducerStop \/ TakeImage \/ TakeError

SpecProducer == InitProducer /\ [][NextProducer]_vars

\* every statement that can run does run, a send that is blocked goes through
\* when the other side keeps receiving, the callers keep draining
\* ImageChannel and ErrorChannel, and a write of p.stopping made after the
\* goroutine started is seen by one of its later reads
FairSpecProducer ==
    /\ SpecProducer
    /\ WF_vars(Start)
    /\ SF_vars(GetPalettesSeeStop)
    /\ WF_vars(GetPalettesGet)
    /\ SF_vars(GetPalettesSendErr)
    /\ SF_vars(GetPalettesEnqueue)
    /\ WF_vars(GetPalettesPace)
    /\ WF_vars(GetPalettesClose)
    /\ SF_vars(MakeImages)
    /\ WF_vars(TakeImage)
    /\ WF_vars(TakeError)

-----------------------------------------------------------------------------
(* LinearGradientTransition.Read (internal/frame/lineargradient.go): the   *)
(* reader of a channel of colours, one colour per frame of ImageWidth *    *)
(* ImageHeight pixels; fi.image is lgt.col, fi.idx is lgt.idx.             *)

\* out[j] = lgt.col.R; out[j+1] = lgt.col.B; out[j+2] = lgt.col.B; out[j+3] = lgt.col.A
TransitionBytes(c) == <<c.R, c.B, c.B, c.A>>

\* for i, j := lgt.idx, cnt; i < imageSize && j < l; i, j = i+4, j+4 { out[j..j+3] = ...; n += 4 }
RECURSIVE TransitionLoop(_, _, _, _, _, _, _)
TransitionLoop(i, j, n, p, col, size, l) ==
    IF ~(i < size /\ j < l) THEN [p |-> p, n |-> n, fail |-> "none"]
    ELSE IF col = Nil THEN [p |-> p, n |-> n, fail |-> "nil dereference"]
    ELSE LET st == StorePixel(p, j, TransitionBytes(Deref(col)), 0)
         IN  IF st.fail # "none" THEN [p |-> st.p, n |-> n, fail |-> st.fail]
             ELSE TransitionLoop(i + 4, j + 4, n + 4, st.p, col, size, l)

\* one iteration of for cnt < l
StepTransition(f, r, ch) ==
    LET recv   == f.image = Nil
        image1 == IF recv THEN RecvFrame(ch) ELSE f.image
        end1   == r.end \/ (recv /\ ch = <<>>)
        size   == f.ImageSize * 4
        lp     == TransitionLoop(f.idx, r.cnt, 0, r.p, image1, size, r.l)
    IN  EndIter(f, r, image1, size, lp.n, lp.p, end1, lp.fail)

ReadIterTransition == ReadIterWith(StepTransition(fi, rd, imageChannel))

InitReadTransition ==
    /\ InitReader
    /\ \E r \in TestRects : fi = [image |-> Nil, idx |-> 0, ImageSize |-> r[1] * r[2]]
NextReadTransition == EnqueueColor \/ CloseFrames \/ ReadPixelCall \/ ReadIterTransition
SpecReadTransition == InitReadTransition /\ [][NextReadTransition]_vars

-----------------------------------------------------------------------------
(* LinearGradient.Run (internal/frame/lineargradient.go 58-107): the       *)
(* sliding gradient of three colours; conf.width is lgis.Rect.Dx(),        *)
(* conf.transitionFrames is lgis.Transition. synth.n counts the frames     *)
(* sent since the last shift of the colours.                               *)

\* frames of one run of colours the model follows
MaxSlideFrames == 4

SlideConfs ==
    {[version |-> "slide", width |-> r[1], height |-> 1, transitionFrames |-> r[2]] :
        r \in {<<1, 1>>, <<2, 1>>, <<2, 2>>, <<4, 2>>, <<3, 2>>, <<1, 2>>, <<4, 3>>}}

\* step := lgis.Rect.Dx() / lgis.Transition
SlideStep == conf.width \div conf.transitionFrames

\* lerp(min, max, pos) of lineargradient.go 195-204, for max > min: the
\* quotient of the two float32, held in 0..1
lerpPos(min, max, pos) ==
    IF pos - min >= max - min THEN FDiv[1, 1]
    ELSE IF pos - min <= 0 THEN FDiv[0, 1]
    ELSE FDiv[pos - min, max - min]

\* mix(c1, c2, ratio) of lineargradient.go 207-213
mix(c1, c2, ratio) ==
    RGBA(LerpChannel(c1.R, c2.R, ratio), LerpChannel(c1.G, c2.G, ratio),
         LerpChannel(c1.B, c2.B, ratio), LerpChannel(c1.A, c2.A, ratio))

\* the row of Dx pixels: mix(mix(left, middle, ..), right, ..) set at x
SlideImage(left, middle, right, stops) ==
    LET px(x) == PixelBytes(mix(mix(left, middle, lerpPos(stops[1], stops[2], x)),
                                right, lerpPos(stops[2], stops[3], x)))
        row[x \in 0..conf.width] == IF x = 0 THEN <<>> ELSE row[x - 1] \o px(x - 1)
    IN  [Dx |-> conf.width, Dy |-> 1, Stride |-> 4 * conf.width, Pix |-> row[conf.width]]

SlideInit == [pc |-> "left", left |-> Nil, middle |-> Nil, right |-> Nil, done |-> FALSE,
              frame |-> 0, n |-> 0, stops |-> <<0, conf.width, conf.width * 2>>]

SlideLeft == synth.pc = "left" /\ SynthRecv("left", "middle")
SlideMiddle == synth.pc = "middle" /\ SynthRecv("middle", "right")
SlideRight == synth.pc = "right" /\ SynthRecv("right", "frames")

\* if stops[1] <= 0
Shifts(stops) == stops[2] <= 0

\* the rest of one iteration of for !done: the image, the send, the stops,
\* the shift of the colours when the middle stop has reached 0, and
\* close(lgis.imageChannel) when the loop ends
SlideFrame ==
    /\ ~Crashed
    /\ synth.pc = "frames"
    /\ synth.n < MaxSlideFrames
    /\ IF synth.left = Nil \/ synth.middle = Nil \/ synth.right = Nil
       THEN /\ crashed' = "nil dereference"
            /\ UNCHANGED <<imageChannel, imageClosed, enq, synth, hist>>
       ELSE /\ Len(imageChannel) < FrameCap
            /\ LET img == SlideImage(Deref(synth.left), Deref(synth.middle),
                                     Deref(synth.right), synth.stops)
                   s1  == [k \in 1..3 |-> synth.stops[k] - SlideStep]
               IN  /\ imageChannel' = Append(imageChannel, img)
                   /\ enq' = Append(enq, img)
                   /\ IF Shifts(s1)
                      THEN /\ synth' = [synth EXCEPT
                                          !.left = synth.middle, !.middle = synth.right,
                                          !.right = Nil, !.n = 0,
                                          !.stops = <<s1[2], s1[3], s1[3] + conf.width>>,
                                          !.pc = IF synth.done THEN "done" ELSE "left"]
                           /\ hist' = [hist EXCEPT !.shifts = Append(@, synth.n + 1)]
                      ELSE /\ synth' = [synth EXCEPT
                                          !.n = @ + 1, !.stops = s1,
                                          !.pc = IF synth.done THEN "done" ELSE "left"]
                           /\ UNCHANGED hist
                   /\ imageClosed' = synth.done
            /\ UNCHANGED crashed
    /\ UNCHANGED <<producer, ffmpeg, colErrChan, conf, colorChannel, colorClosed,
                   errorChannel, ctxDone, fetch, coord>>
    /\ UNCHANGED <<fi, rd, got>>

Slide == SlideLeft \/ SlideMiddle \/ SlideRight \/ SlideFrame

InitSlide ==
    /\ imageChannel = <<>>
    /\ imageClosed = FALSE
    /\ fi = [image |-> Nil, idx |-> 0, ImageSize |-> 0]
    /\ rd = RdIdle
    /\ got = <<>>
    /\ enq = <<>>
    /\ \E c \in SlideConfs : conf = c
    /\ producer = [stopping |-> FALSE]
    /\ ffmpeg = [pc |-> "run", err |-> "none"]
    /\ colErrChan = <<>>
    /\ colorChannel = <<>>
    /\ colorClosed = FALSE
    /\ errorChannel = <<>>
    /\ ctxDone = FALSE
    /\ fetch = FetchInit
    /\ synth = SlideInit
    /\ coord = [pc |-> "loop"]
    /\ crashed = "none"
    /\ hist = [fetched |-> <<>>, sent |-> <<>>, recvd |-> <<>>, closeLog |-> <<>>,
               nFetch |-> 0, nErr |-> 0, pairs |-> 0, shifts |-> <<>>]

NextSlide == SendGradColor \/ CloseColors \/ Slide \/ TakeImage

SpecSlide == InitSlide /\ [][NextSlide]_vars

-----------------------------------------------------------------------------
(* go frameMaker.Run() next to Read (cmd/main.go 507-514): the frame queue *)
(* of LinearGradientTransition is made by the first statement of Run, and  *)
(* Read takes lgt.imageChannel as it finds it. synth.pc = "make" is Run    *)
(* before that statement.                                                  *)

RunConfs ==
    {[version |-> "color", width |-> 1, height |-> 1, transitionFrames |-> t] : t \in {1, 2}}

\* lgt.imageChannel = make(chan *color.RGBA, lgt.Transition*3)
RunMake ==
    /\ ~Crashed
    /\ synth.pc = "make"
    /\ synth' = [synth EXCEPT !.pc = "left"]
    /\ UNCHANGED <<producer, ffmpeg, colErrChan, conf, colorChannel, colorClosed,
                   errorChannel, ctxDone, fetch, coord, crashed, hist>>
    /\ UNCHANGED readerVars

\* col, ok := <-lgt.imageChannel while the field is still nil: a receive
\* from a nil channel, which blocks for ever
ReadNilQueue ==
    /\ crashed = "none"
    /\ rd.pc = "loop"
    /\ fi.image = Nil
    /\ synth.pc = "make"
    /\ rd' = [rd EXCEPT !.pc = "nilrecv"]
    /\ UNCHANGED <<imageChannel, imageClosed, fi, got, enq>>
    /\ UNCHANGED pipeVars

\* an iteration of Read on the queue Run has made
ReadRunQueue == synth.pc # "make" /\ ReadIterTransition

InitRun ==
    /\ imageChannel = <<>>
    /\ imageClosed = FALSE
    /\ rd = RdIdle
    /\ got = <<>>
    /\ enq = <<>>
    /\ fi = [image |-> Nil, idx |-> 0, ImageSize |-> 1]
    /\ \E c \in RunConfs : conf = c
    /\ producer = [stopping |-> FALSE]
    /\ ffmpeg = [pc |-> "run", err |-> "none"]
    /\ colErrChan = <<>>
    /\ colorChannel = <<>>
    /\ colorClosed = FALSE
    /\ errorChannel = <<>>
    /\ ctxDone = FALSE
    /\ fetch = FetchInit
    /\ synth = [SynthInit EXCEPT !.pc = "make"]
    /\ coord = [pc |-> "loop"]
    /\ crashed = "none"
    /\ hist = HistInit

NextRun ==
    \/ SendColor
    \/ CloseColors
    \/ RunMake
    \/ Synth
    \/ ReadFrameCall
    \/ ReadNilQueue
    \/ ReadRunQueue

SpecRun == InitRun /\ [][NextRun]_vars

-----------------------------------------------------------------------------
(* The three stages of main (cmd/main.go) in the runs where the context is *)
(* never cancelled and every fetch succeeds: the palette goroutine, the    *)
(* frame goroutine and ffmpegInput.Read, with no limit on the number of    *)
(* fetches. No channel is closed in these runs, and the records of what    *)
(* was sent and read (hist, enq, got) are left alone.                      *)

FlowConfs ==
    {[version |-> "v1", width |-> 1, height |-> 1, transitionFrames |-> t] : t \in {0, 1}}

\* pal, err := cm.GetPaletteWithContext(ctx, colorModel, previous) with err == nil
FlowGet ==
    /\ fetch.pc = "fetch"
    /\ \E res \in GetPalette(fetch.previous) :
         /\ res.err = "none"
         /\ fetch' = [fetch EXCEPT !.pc = "enqueue", !.pal = res.pal, !.i = fetch.start]
    /\ UNCHANGED <<producer, ffmpeg, colErrChan, conf, colorChannel, colorClosed,
                   errorChannel, ctxDone, synth, coord, crashed, hist>>
    /\ UNCHANGED readerVars

\* select { case colorChannel <- pal[i]: ... } with ctx.Done() never ready
FlowEnqueue ==
    /\ fetch.pc = "enqueue"
    /\ Len(colorChannel) < colorChanSize
    /\ colorChannel' = Append(colorChannel, Deref(fetch.pal)[fetch.i + 1])
    /\ fetch' = FetchNextI(fetch)
    /\ UNCHANGED <<producer, ffmpeg, colErrChan, conf, colorClosed, errorChannel, ctxDone,
                   synth, coord, crashed, hist>>
    /\ UNCHANGED readerVars

\* the seed, start = 2, the pacing sleep; stop is false
FlowPace ==
    /\ fetch.pc = "pace"
    /\ fetch' = [fetch EXCEPT !.previous = NextPrevious(fetch.previous, fetch.pal),
                              !.start = NextStart(fetch.previous, fetch.start),
                              !.slowCount = IF @ > 0 THEN @ - 1 ELSE @,
                              !.pal = Nil, !.i = 0, !.pc = "fetch"]
    /\ UNCHANGED <<producer, ffmpeg, colErrChan, conf, colorChannel, colorClosed,
                   errorChannel, ctxDone, synth, coord, crashed, hist>>
    /\ UNCHANGED readerVars

\* if left == nil { left = <-colorChannel }; if right == nil { right = <-colorChannel }
FlowRecv(slot, next) ==
    /\ IF synth[slot] = Nil
       THEN /\ colorChannel # <<>>
            /\ synth' = [synth EXCEPT ![slot] = Head(colorChannel), !.pc = next, !.frame = 0]
            /\ colorChannel' = Tail(colorChannel)
       ELSE /\ synth' = [synth EXCEPT !.pc = next, !.frame = 0]
            /\ UNCHANGED colorChannel
    /\ UNCHANGED <<producer, ffmpeg, colErrChan, conf, colorClosed, errorChannel, ctxDone,
                   fetch, coord, crashed, hist>>
    /\ UNCHANGED readerVars

FlowLeft == synth.pc = "left" /\ FlowRecv("left", "right")
FlowRight == synth.pc = "right" /\ FlowRecv("right", "frames")

\* imageChannel <- image of one iteration of the frame loop
FlowFrame ==
    /\ synth.pc = "frames"
    /\ FrameLoopMore(synth.frame)
    /\ Len(imageChannel) < FrameCap
    /\ imageChannel' = Append(imageChannel,
                              PairFrame(Deref(synth.left), Deref(synth.right), synth.frame))
    /\ synth' = [synth EXCEPT !.frame = @ + 1]
    /\ UNCHANGED <<imageClosed, fi, rd, got, enq>>
    /\ UNCHANGED <<producer, ffmpeg, colErrChan, conf, colorChannel, colorClosed,
                   errorChannel, ctxDone, fetch, coord, crashed, hist>>

\* left = right; right = nil; done is false
FlowShift ==
    /\ synth.pc = "frames"
    /\ ~FrameLoopMore(synth.frame)
    /\ synth' = [ShiftColors(synth) EXCEPT !.pc = ShiftPc(FALSE)]
    /\ UNCHANGED <<producer, ffmpeg, colErrChan, conf, colorChannel, colorClosed,
                   errorChannel, ctxDone, fetch, coord, crashed, hist>>
    /\ UNCHANGED readerVars

\* one iteration of the loop of ffmpegInput.Read
FlowRead ==
    /\ rd.pc = "loop"
    /\ fi.image = Nil => imageChannel # <<>>
    /\ LET s == StepCopy(fi, rd, imageChannel)
       IN  fi' = s.fi /\ rd' = s.rd
    /\ imageChannel' = IF fi.image = Nil THEN RecvRest(imageChannel) ELSE imageChannel
    /\ UNCHANGED <<imageClosed, got, enq>>
    /\ UNCHANGED pipeVars

InitFlow ==
    /\ imageChannel = <<>>
    /\ imageClosed = FALSE
    /\ fi = [image |-> Nil, idx |-> 0, ImageSize |-> 0]
    /\ rd = RdIdle
    /\ got = <<>>
    /\ enq = <<>>
    /\ \E c \in FlowConfs : InitPipe(c)

\* the palette goroutine, the frame goroutine, and the reader with its caller
FlowFetch == FlowGet \/ FlowEnqueue \/ FlowPace
FlowSynth == FlowLeft \/ FlowRight \/ FlowFrame \/ FlowShift
FlowReader == ReadMainCall \/ FlowRead

NextFlow == FlowFetch \/ FlowSynth \/ FlowReader

SpecFlow == InitFlow /\ [][NextFlow]_vars

\* every goroutine that can take a step takes it, the sleeps end, and the
\* external reader calls Read again after every return
FairSpecFlow ==
    /\ SpecFlow
    /\ WF_vars(FlowFetch)
    /\ WF_vars(FlowSynth)
    /\ WF_vars(FlowReader)

----------------------------------------------------------------------------
(* C1: the bytes the copy-based Read calls have returned are, at every     *)
(* moment, a prefix of the concatenation of the frames in the order they   *)
(* were enqueued: nothing is returned twice, skipped or reordered.         *)
C1_ReadIsPrefix == IsPrefix(got, Flatten(enq))

\* a call that spanned several frames has returned, leaving a frame split
C1_Witness ==
    /\ rd.pc = "idle"
    /\ rd.n = 9
    /\ fi.image # Nil
    /\ fi.idx > 0
    /\ Len(got) > rd.n

(* C2: a Read never fails on the nil frame received from the closed,       *)
(* drained queue; a call that returns with io.EOF returns fewer bytes than *)
(* len(p), and every other call that returns has n = len(p).               *)
C2_EofIsShortRead ==
    /\ ~(rd.fail = "nil dereference" /\ rd.l > 0)
    /\ rd.pc = "idle" => IF rd.err = "EOF" THEN rd.n < rd.l ELSE rd.n = rd.l

(* C6: for a buffer of any length Read stays inside the buffer and the     *)
(* frame (no index out of range) and returns 0 <= n <= len(p).             *)
C6_AnyBufferLength ==
    /\ rd.fail # "index out of range"
    /\ rd.cnt >= 0 /\ rd.cnt <= rd.l
    /\ rd.n >= 0 /\ rd.n <= rd.l

\* the part_000 Read called again and again with 4-byte buffers on a queue
\* holding ch, until it would block: the bytes returned
RECURSIVE SmallReads(_, _, _, _)
SmallReads(f, r, ch, acc) ==
    IF r.pc = "panic" THEN acc
    ELSE IF r.pc = "idle"
    THEN SmallReads(f, [RdIdle EXCEPT !.pc = "loop", !.l = 4, !.p = <<0, 0, 0, 0>>],
                    ch, acc)
    ELSE IF f.image = Nil /\ ch = <<>> THEN acc
    ELSE LET s == StepColor(f, r, ch)
         IN  SmallReads(s.fi, s.rd, IF f.image = Nil THEN RecvRest(ch) ELSE ch,
                        IF s.rd.pc = "idle" THEN acc \o SubSeq(s.rd.p, 1, s.rd.n)
                        ELSE acc)

(* C7: for the same queued colours, the bytes read with buffers smaller    *)
(* than a frame and the bytes read with any other chunking are the same    *)
(* stream: one is a prefix of the other.                                   *)
C7_ChunkingIndependent ==
    LET small == SmallReads([fi EXCEPT !.image = Nil, !.idx = 0], RdIdle, enq, <<>>)
    IN  fi.ImageSize > 1 => IsPrefix(got, small) \/ IsPrefix(small, got)

\* the colours the fetch loop is to send for the palettes fetched: all five
\* of the first, the last three of each later one
RECURSIVE EmitAll(_, _)
EmitAll(pals, first) ==
    IF pals = <<>> THEN <<>>
    ELSE (IF first THEN Head(pals) ELSE SubSeq(Head(pals), 3, 5))
         \o EmitAll(Tail(pals), FALSE)

(* C3: imageChannel is closed only when colorChannel has been closed and   *)
(* drained, and once colorChannel is closed the frame goroutine stops      *)
(* without dereferencing a nil colour.                                     *)
C3_CloseIffDrained ==
    /\ imageClosed => colorClosed /\ colorChannel = <<>>
    /\ colorClosed => crashed # "nil dereference"

(* C4: once the context is cancelled the palette goroutine eventually      *)
(* closes colorChannel.                                                    *)
C4_CancelClosesColors == ctxDone ~> colorClosed

(* C5: colorChannel is closed at most once and only by the palette         *)
(* goroutine, imageChannel at most once and only by the frame goroutine,   *)
(* and nothing is sent on, or closes, a closed channel.                    *)
C5_SingleOwnerClose ==
    /\ crashed \notin {"send on closed channel", "close of closed channel"}
    /\ \A k \in 1..Len(hist.closeLog) :
         /\ hist.closeLog[k] \in {<<"colorChannel", "fetch">>, <<"imageChannel", "synth">>}
         /\ \A m \in 1..Len(hist.closeLog) : hist.closeLog[m] = hist.closeLog[k] => m = k

\* both channels have been closed
C5_Witness == colorClosed /\ imageClosed /\ Len(hist.closeLog) = 2

\* the frames Run is to make for the colours cols, pair by pair
RECURSIVE AllPairFrames(_)
AllPairFrames(cols) ==
    IF Len(cols) < 2 THEN <<>>
    ELSE [k \in 1..conf.transitionFrames |->
             PairFrame(Deref(cols[1]), Deref(cols[2]), k - 1)]
         \o AllPairFrames(Tail(cols))

\* bytes of one frame
FrameBytes == conf.width * conf.height * 4

(* C8: with image frames and Read buffers of a multiple of 4 bytes, Read   *)
(* has returned at most (frames enqueued) * width * height * 4 bytes, and  *)
(* exactly N * transitionFrames * width * height * 4 once every frame of   *)
(* the N completed pairs has been read.                                    *)
C8_TotalBytes ==
    conf.version = "v2" =>
        /\ Len(got) <= Len(enq) * FrameBytes
        /\ (/\ rd.pc = "idle"
            /\ imageChannel = <<>>
            /\ fi.image = Nil
            /\ synth.pc \in {"left", "right"})
           => Len(got) = hist.pairs * conf.transitionFrames * FrameBytes

\* two pairs were made and all their frames read
C8_Witness ==
    /\ conf.version = "v2"
    /\ hist.pairs = 2
    /\ conf.transitionFrames = 2
    /\ rd.pc = "idle"
    /\ imageChannel = <<>>
    /\ fi.image = Nil
    /\ synth.pc = "right"
    /\ Len(got) = 4 * FrameBytes

(* C9: while colorChannel is open, the frames enqueued are those of the    *)
(* pairs (c1,c2), (c2,c3), ... of the colours dequeued, transitionFrames   *)
(* per pair with ratio k/transitionFrames for frame k, and every colour    *)
(* sent is dequeued once, in order.                                        *)
C9_PairChain ==
    ~synth.done =>
        LET n == hist.pairs * conf.transitionFrames
                 + (IF synth.pc = "frames" THEN synth.frame ELSE 0)
        IN  /\ Len(enq) = n
            /\ n <= Len(AllPairFrames(hist.recvd))
            /\ enq = SubSeq(AllPairFrames(hist.recvd), 1, n)
            /\ hist.recvd \o colorChannel = hist.sent
            /\ Len(hist.recvd) = IF synth.pc = "frames" THEN hist.pairs + 2
                                 ELSE IF synth.pc = "right" THEN hist.pairs + 1
                                 ELSE IF hist.pairs = 0 THEN 0 ELSE hist.pairs + 1

\* three colours made two pairs of two frames each
C9_Witness ==
    /\ ~synth.done
    /\ hist.pairs = 2
    /\ conf.transitionFrames = 2
    /\ Len(enq) = 4
    /\ Len(hist.recvd) = 3
    /\ hist.recvd[1] # hist.recvd[2]

\* the seed in force once the palettes pals have been fetched
SeedAfter(pals) ==
    IF pals = <<>> THEN Nil
    ELSE Ptr(<<pals[Len(pals)][4], pals[Len(pals)][5], Nil, Nil, Nil>>)

(* C11: whenever GetPalette is about to be called, or has just failed, the *)
(* seed is nil if no palette was fetched yet, and otherwise holds colours   *)
(* 3 and 4 of the last palette fetched in its positions 0 and 1 and        *)
(* nothing in positions 2, 3, 4.                                           *)
C11_SeedIsTail ==
    fetch.pc \in {"fetch", "senderr"} => fetch.previous = SeedAfter(hist.fetched)

\* a fetch failed after a successful one, and the seed is that of the success
C11_Witness ==
    /\ fetch.pc = "senderr"
    /\ Len(hist.fetched) = 1
    /\ ~ctxDone
    /\ fetch.previous # Nil
    /\ Deref(fetch.previous)[1] = hist.fetched[1][4]

(* C12: for consecutive palettes P, Q fetched without cancellation, the    *)
(* first two colours sent for Q are colours 3 and 4 of P; stated here for  *)
(* the answers in which the API kept the seed, Q[0] = P[3] and Q[1] = P[4]. *)
C12_Continuity ==
    ~ctxDone =>
        \A k \in 2..Len(hist.fetched) :
            LET P    == hist.fetched[k - 1]
                Q    == hist.fetched[k]
                base == 5 + 3 * (k - 2)
            IN  (Q[1] = P[4] /\ Q[2] = P[5] /\ Len(hist.sent) >= base + 2)
                => (hist.sent[base + 1] = P[4] /\ hist.sent[base + 2] = P[5])

C10_EmitOrder ==
    ~ctxDone =>
        LET all  == EmitAll(hist.fetched, TRUE)
            todo == IF fetch.pc = "enqueue" THEN 5 - fetch.i ELSE 0
        IN  hist.sent = SubSeq(all, 1, Len(all) - todo)

\* two palettes were sent, with a failed fetch in between
C10_Witness ==
    /\ ~ctxDone
    /\ Len(hist.fetched) = 2
    /\ Len(hist.sent) = 8
    /\ fetch.pc = "fetch"

(* C14: in fillColors a failed GetPalette does not end the goroutine: it   *)
(* does not fail on the nil palette, and the loop is left only after Stop  *)
(* has set the stopping flag.                                              *)
C14_FailureKeepsLooping ==
    /\ ~(crashed = "nil dereference" /\ fetch.pal = Nil)
    /\ fetch.pc \in {"close", "done"} => producer.stopping

(* C15: in the loop at the end of main, receiving an error of the palette  *)
(* fetch neither cancels the context nor ends the loop; the loop is left,  *)
(* and stop() called, only when the context is already done or the error   *)
(* received is the ffmpeg exit error.                                       *)
C15_FetchErrorNotFatal ==
    [][/\ (coord'.err # coord.err /\ coord'.err \in FetchErrors)
          => (coord'.pc = "loop" /\ ctxDone' = ctxDone)
       /\ (coord.pc = "loop" /\ coord'.pc # "loop")
          => \/ ctxDone
             \/ /\ errorChannel # <<>>
                /\ Head(errorChannel) \in {errFfmpegExit, FfmpegFailed}
                /\ coord'.err = Head(errorChannel)
                /\ ctxDone']_vars
C15_Witness == coord.pc = "loop" /\ coord.err \in FetchErrors /\ ~ctxDone /\ ffmpeg.pc = "done"

(* C16: once the ffmpeg process has ended with an error, the coordinator   *)
(* eventually has called stop(), so that the shared context is cancelled,  *)
(* and has left its loop, also while the palette goroutine keeps sending   *)
(* fetch errors on the same or on the other error channel.                 *)
C16_FfmpegExitStops == (ffmpeg.err # "none") ~> (coord.pc = "left" /\ ctxDone)
C16_Witness ==
    /\ coord.pc = "left" /\ coord.err = FfmpegFailed /\ ctxDone
    /\ fetch.pc = "senderr" /\ Len(errorChannel) = errorChanSize - 1

(* C17: GetPaletteWithContext with a seed that is not nil and whose five   *)
(* entries are all empty returns (nil, ErrEmptyPalette) without a request  *)
(* to the API; with a nil seed, or a seed with at least one entry, it      *)
(* passes the validation and the request is issued.                        *)
C17_EmptySeedRejected ==
    fetch.pc = "returned" =>
        IF fetch.previous # Nil /\ \A k \in 1..5 : Deref(fetch.previous)[k] = Nil
        THEN fetch.pal = Nil /\ fetch.err = "ErrEmptyPalette" /\ ~fetch.req
        ELSE fetch.req /\ fetch.err # "ErrEmptyPalette"
C17_Witness ==
    /\ fetch.pc = "returned" /\ fetch.req /\ fetch.err = "none"
    /\ fetch.previous # Nil
    /\ Deref(fetch.previous)[1] # Nil /\ Deref(fetch.previous)[2] = Nil
C17_WitnessEmpty ==
    /\ fetch.pc = "returned" /\ fetch.err = "ErrEmptyPalette"
    /\ fetch.previous = Ptr(<<Nil, Nil, Nil, Nil, Nil>>)

(* C18: for every pair (A, B) and every transitionFrames >= 1 the frame at *)
(* frame index 0 has the channels of A, the ratio of frame index 0 is 0,   *)
(* the ratios of the frame indices 0..transitionFrames-1 are strictly      *)
(* increasing and every one of them is strictly less than 1.               *)
C18_RatiosBelowOne ==
    synth.img # Nil =>
        /\ synth.frame - 1 = 0 =>
              /\ Deref(synth.ratio) = <<0, 0>>
              /\ Deref(synth.img).Pix = PixelBytes(Deref(synth.left))
        /\ FLt(Deref(synth.ratio), <<2^23, 23>>)
        /\ synth.prev # Nil => FLt(Deref(synth.prev), Deref(synth.ratio))

(* C19: interpolating a colour with itself, at every ratio k/transitionFrames *)
(* with 0 <= k < transitionFrames, gives the colour itself in all four     *)
(* channels.                                                                *)
C19_SelfLerpIsIdentity ==
    (synth.img # Nil /\ synth.left = synth.right) =>
        Deref(synth.img).Pix = PixelBytes(Deref(synth.left))

\* the colour of the i-th frame enqueued: its pair and frame index follow
\* from the colours received
GradFrameColor(i) ==
    LET p == (i - 1) \div conf.transitionFrames + 1
        f == (i - 1) % conf.transitionFrames
    IN  lerp(Deref(hist.recvd[p]), Deref(hist.recvd[p + 1]),
             FrameRatio(f, conf.transitionFrames))

(* C20: every frame the gradient fill enqueues is width*height*4 bytes     *)
(* long and each of its width*height pixels holds the four bytes R, G, B,  *)
(* A of the interpolated colour; with width 4, height 2, transitionFrames  *)
(* 2 and the colours (0,0,0,255), (255,255,255,255) the frames are 32      *)
(* bytes of (0,0,0,255), then 32 bytes of (127,127,127,255).               *)
C20_GradientFill ==
    /\ \A i \in 1..Len(enq) :
         /\ Len(enq[i]) = conf.width * conf.height * 4
         /\ \A k \in 0..(conf.width * conf.height - 1) :
              SubSeq(enq[i], 4 * k + 1, 4 * k + 4) = PixelBytes(GradFrameColor(i))
    /\ (/\ conf.width = 4 /\ conf.height = 2 /\ conf.transitionFrames = 2
        /\ Len(enq) >= 2
        /\ hist.recvd[1] = Ptr(RGBA(0, 0, 0, 255))
        /\ hist.recvd[2] = Ptr(RGBA(255, 255, 255, 255)))
       => /\ enq[1] = Repeat(<<0, 0, 0, 255>>, 8)
          /\ enq[2] = Repeat(<<127, 127, 127, 255>>, 8)
C20_Witness ==
    /\ conf.width = 4 /\ conf.height = 2 /\ conf.transitionFrames = 2
    /\ Len(enq) = 2
    /\ hist.recvd = <<Ptr(RGBA(0, 0, 0, 255)), Ptr(RGBA(255, 255, 255, 255))>>
    /\ Len(enq[2]) = 32 /\ enq[2][29] = 127

\* the sentinels of the palette client that name a kind of failure
PostSentinels == {"ErrPost", "ErrResponseStatus", "ErrReadBody", "ErrEmptyBody", "ErrParseBody"}

(* C21: GetPaletteWithContext never returns a palette together with an     *)
(* error; a transport failure gives an error matching ErrPost, a status    *)
(* other than 200 one matching ErrResponseStatus, the sentinel body        *)
(* ErrEmptyBody, an unparsable body ErrParseBody; no error matches two     *)
(* sentinels; a palette is returned only with status 200 and a body that   *)
(* parses.                                                                  *)
C21_DistinctErrorKinds ==
    fetch.pc = "returned" =>
        LET r == fetch.resp
            got200 == r.do = "ok" /\ r.status = 200 /\ r.read = "ok"
        IN  /\ (fetch.pal = Nil) # (fetch.err = "none")
            /\ r.do = "fail" => ErrorsIs(fetch.err, "ErrPost")
            /\ (r.do = "ok" /\ r.status # 200) => ErrorsIs(fetch.err, "ErrResponseStatus")
            /\ (got200 /\ r.body.kind = "sentinel") => ErrorsIs(fetch.err, "ErrEmptyBody")
            /\ (got200 /\ r.body.kind = "garbage") => ErrorsIs(fetch.err, "ErrParseBody")
            /\ \A a \in PostSentinels, b \in PostSentinels :
                 (ErrorsIs(fetch.err, a) /\ ErrorsIs(fetch.err, b)) => a = b
            /\ fetch.pal # Nil => (got200 /\ r.body.kind = "json")

(* C22: in the enqueue loop of the palette goroutine, once the ctx.Done    *)
(* branch has been taken for a colour pal[i], no later colour pal[j] of    *)
(* that palette is enqueued: the colours sent on colorChannel are always a *)
(* contiguous prefix of the intended emission sequence.                    *)
C22_CancelAbortsEnqueue == IsPrefix(hist.sent, EmitAll(hist.fetched, TRUE))

(* C23: in Producer.makeImages no dequeued colour is discarded: the k-th   *)
(* transition goes from the k-th dequeued colour to the (k+1)-th dequeued  *)
(* colour, for every k.                                                    *)
C23_TransitionsFollowQueue ==
    \A k \in 1..Len(hist.trans) :
        /\ k + 1 <= Len(hist.recvd)
        /\ hist.trans[k] = <<hist.recvd[k], hist.recvd[k + 1]>>

(* C24: in Producer.makeImages every frame index reached so far was either *)
(* sent on ImageChannel as a SequenceFrame with that Frame, or was         *)
(* reported once as ErrEncodeImage and not sent, never both; a failure     *)
(* does not skip the following indices, and the Frame values sent are      *)
(* strictly increasing.                                                    *)
C24_EncodeFailureDropsOneFrame ==
    LET sentFrames == {enq[k].Frame : k \in 1..Len(enq)}
        failed     == {hist.encErrs[k] : k \in 1..Len(hist.encErrs)}
        reached    == synth.lastFrame + (IF synth.pc = "frames" THEN synth.frame ELSE 0)
    IN  /\ sentFrames \cup failed = 0..(reached - 1)
        /\ sentFrames \cap failed = {}
        /\ Cardinality(failed) = Len(hist.encErrs)
        /\ \A k \in 1..(Len(enq) - 1) : enq[k].Frame < enq[k + 1].Frame
        /\ synth.lastFrame = Len(hist.trans) * conf.transitionFrames
                             - (IF synth.pc = "frames" THEN conf.transitionFrames ELSE 0)

\* the encoder failed on the first frame of a transition of two frames, the
\* second frame of that transition and a frame of the next were sent
C24_Witness ==
    /\ conf.transitionFrames = 2
    /\ Len(hist.encErrs) = 1
    /\ hist.encErrs[1] % 2 = 0
    /\ \E k \in 1..Len(enq) : enq[k].Frame = hist.encErrs[1] + 1
    /\ \E k \in 1..Len(enq) : enq[k].Frame >= hist.encErrs[1] + 2

(* C25: every pixel LinearGradientTransition.Read has returned is the four *)
(* bytes R, G, B, A, in this order, of the dequeued colour of its frame.   *)
C25_TransitionBytesRGBA ==
    \A m \in 0..((Len(got) \div 4) - 1) :
        LET k == (m \div fi.ImageSize) + 1
        IN  /\ k <= Len(enq)
            /\ SubSeq(got, 4 * m + 1, 4 * m + 4) = PixelBytes(enq[k])

(* C26: in LinearGradient.Run, for every width Dx >= 1 and every           *)
(* Transition >= 1, exactly Transition frames are enqueued between two     *)
(* successive shifts of the colours: a shift has happened by the time      *)
(* Transition frames were sent, and not before.                            *)
C26_ShiftEveryTransition ==
    /\ synth.n < conf.transitionFrames
    /\ \A k \in 1..Len(hist.shifts) : hist.shifts[k] = conf.transitionFrames

(* C27: in every state of the pipeline built by main the colour queue      *)
(* holds at most 15 colours and the frame queue at most                    *)
(* 3 * transitionFrames frames.                                            *)
C27_QueueCapacities ==
    /\ Len(colorChannel) <= colorChanSize
    /\ Len(imageChannel) <= 3 * conf.transitionFrames

(* C28: the fetch loop pauses after each of the first N successful         *)
(* iterations, N = colour queue capacity / 3, and after no other: the      *)
(* pauses made so far are the smaller of N and the successful iterations   *)
(* completed, whatever fetches failed in between.                          *)
C28_PacingFirstN ==
    LET N         == conf.colorQueueSize \div 3
        completed == Len(hist.fetched) - (IF fetch.pc \in {"enqueue", "pace"} THEN 1 ELSE 0)
    IN  /\ hist.pauses = Min(N, completed)
        /\ fetch.slowCount = N - hist.pauses

\* N = 1 and the second successful iteration has ended without a pause
C28_Witness ==
    /\ conf.colorQueueSize \div 3 = 1
    /\ Len(hist.fetched) = 2
    /\ fetch.pc = "fetch"
    /\ hist.pauses = 1

(* C29: once Producer.Stop was called while Start runs, with the callers   *)
(* draining ImageChannel and ErrorChannel and every GetPalette call        *)
(* returning, getPalettes leaves its loop and closes colorQueue, exactly   *)
(* once, makeImages drains colorQueue, and Start returns.                  *)
C29_StopEndsStart ==
    producer.stopCalled ~> (coord.pc = "returned" /\ colorClosed /\ Len(hist.closeLog) = 1)

C31_ReadUsesRunQueue == rd.pc # "nilrecv"

\* the frame goroutine waits to send on the full frame queue; the palette
\* goroutine waits to send on the full colour queue
SynthBlocked ==
    synth.pc = "frames" /\ FrameLoopMore(synth.frame) /\ Len(imageChannel) >= FrameCap
FetchBlocked == fetch.pc = "enqueue" /\ Len(colorChannel) >= colorChanSize

\* Read has returned a full buffer without an error
ReadFull == rd.pc = "idle" /\ rd.l > 0 /\ rd.n = rd.l /\ rd.err = "none"

\* a configuration that produces frames
MakesFrames == conf.transitionFrames >= 1 /\ conf.width * conf.height >= 1

(* C32: with no cancellation, every fetch succeeding and the reader        *)
(* calling Read with non-empty buffers again and again, under fair         *)
(* scheduling every Read call returns a full buffer, the frame goroutine   *)
(* is never blocked for ever on a full frame queue and the palette         *)
(* goroutine never for ever on a full colour queue.                        *)
C32_NoDeadlock ==
    /\ (rd.pc = "loop") ~> ReadFull
    /\ []<>(~SynthBlocked)
    /\ []<>(~FetchBlocked)

\* the same for the configurations that produce frames
FlowLiveWhenFrames ==
    /\ (MakesFrames /\ rd.pc = "loop") ~> ReadFull
    /\ []<>(MakesFrames => ~SynthBlocked)
    /\ []<>(MakesFrames => ~FetchBlocked)

\* both queues are full while Read waits, in a configuration that produces frames
FlowAllWaiting == MakesFrames /\ FetchBlocked /\ SynthBlocked /\ rd.pc = "loop"

(* C33: whenever the ffmpeg process of the colour-pipe program has exited, *)
(* with an error or cleanly, the coordinator eventually leaves its loop    *)
(* with the shared context cancelled: the pipeline is not left running     *)
(* without an encoder.                                                     *)
C33_ExitNotifies ==
    (conf.version = "color" /\ ffmpeg.pc # "run") ~> (coord.pc = "left" /\ ctxDone)

=============================================================================
